---- MODULE Spec2Model ----
(***************************************************************************)
(* Mudbrick: text index, sensitive-data pattern search, rectangle          *)
(* reconstruction, the per-page OCR result store, the parsing of a         *)
(* recognition result into the find index, and the document and            *)
(* annotation histories.                                                   *)
(*                                                                         *)
(* A JavaScript string is a sequence of one-character strings; offsets are *)
(* 0-based as in the source, so the character at offset i of s is s[i+1].  *)
(* Geometry is in integer units; a comparison against h * 0.5 is written   *)
(* with both sides doubled.                                                *)
(***************************************************************************)
EXTENDS Integers, Sequences, FiniteSets, TLC

VARIABLES
    \* --- text index (buildCharMap / getRectsForRange applied to one item list)
    items,          \* textContent.items of the page being indexed
    fullText,       \* buildCharMap(...).fullText
    charMap,        \* buildCharMap(...).charMap
    span,           \* [startIdx, endIdx] handed to getRectsForRange
    rects,          \* its result
    ipc,            \* "input" | "built" | "loop" (inside getRectsForRange) | "rects"
    \* --- validators (REDACTION_PATTERNS[kind].validate applied to one candidate)
    kind,           \* "ssn" | "creditCard"
    cand,           \* the candidate string
    verdict,        \* "none" | "accept" | "reject"
    vpc,            \* "input" | "done"
    \* --- one call searchPatterns(pdfDoc, patternNames, customPattern)
    pdfDoc,         \* [isNull, pages]: pages[p] is the items of page p's text content
    patternNames,   \* the pattern names, in the order given
    customPattern,  \* the custom pattern string; <<>> when none is given
    pageNum,        \* the loop variable of the page loop
    results,        \* the result list built so far
    lastIndex,      \* lastIndex of the regex object of each built-in pattern
    spc,            \* "idle" | "page" (awaiting the page's text content) |
                    \* "returned" | "threw" | "hung" (the while loop never ends) |
                    \* "validatorThrew" (an exception of pattern.validate left the call)
    \* --- the open document and the OCR module (export.js, ocr.js)
    State,          \* State.pdfDoc, State.totalPages, State.currentPage
    loader,         \* the openPDF / reloadAfterEdit call awaiting loadDocument
    contents,       \* number of document contents produced so far (ghost)
    ocrResults,     \* pageNum -> entry; its domain is the keys of the object
    tesseractLoaded,
    worker,         \* 0 is null, otherwise the worker's identity
    created,        \* number of workers created so far (ghost)
    runs,           \* the runOCR calls: position, arguments, loop index
    runDisabled,    \* $('btn-ocr-run').disabled
    \* --- one iteration of runOCR's page loop and getOCRTextEntries (ocr.js)
    ocrPage,        \* pageNum of the iteration
    nativeViewport, \* [height]: the page's viewport at 72 dpi
    result,         \* [data]: what worker.recognize resolved with
    ocrEntries,     \* what getOCRTextEntries() returned
    opc,            \* "idle" | "recognized" | "stored" | "threw" | "entries"
    \* --- a second searchPatterns call with the same arguments
    pageNum2,       \* its page loop variable
    results2,       \* its result list
    spc2,           \* its position, as spc
    \* --- document history (doc-history.js)
    undoStack,      \* snapshots of the document bytes, oldest first
    redoStack,
    docCalls,       \* the calls made so far, with their results (history)
    \* --- annotation history (history.js)
    pageHistory,    \* pageNum -> [undoStack, redoStack] of canvas JSON strings
    annLast,        \* the last call and its result (history)
    annCalls,       \* number of calls made so far (history)
    pushedPages,    \* pages with a pushState since their history was cleared (history)
    \* --- the loop of getRectsForRange, one iteration at a time
    currentRect,    \* <<>> for null, <<r>> for the open rectangle r
    idx,            \* the loop variable i
    merged,         \* for each rectangle made so far, closed ones first, the
                    \* offsets of the characters put into it (history)
    lastStep,       \* the last iteration: its character, the open rectangle
                    \* it found, whether it pushed a rectangle (history)
    \* --- REDACTION_PATTERNS, an exported object
    registry        \* pattern key -> the function its validate property holds

ixVars == <<items, fullText, charMap, span, rects, ipc>>
valVars == <<kind, cand, verdict, vpc>>
srVars == <<pdfDoc, patternNames, customPattern, pageNum, results, lastIndex, spc>>

docVars == <<State, loader, contents, ocrResults, tesseractLoaded, worker, created,
             runs, runDisabled>>

otVars == <<ocrPage, nativeViewport, result, ocrEntries, opc>>

s2Vars == <<pageNum2, results2, spc2>>

dhVars == <<undoStack, redoStack, docCalls>>
anVars == <<pageHistory, annLast, annCalls, pushedPages>>
rgVars == <<currentRect, idx, merged, lastStep>>

vars == <<ixVars, valVars, srVars, docVars, otVars, s2Vars, dhVars, anVars, rgVars, registry>>

\* what the actions of one part leave alone
notIx == <<valVars, srVars, docVars, otVars, s2Vars, dhVars, anVars, rgVars, registry>>
notVal == <<ixVars, srVars, docVars, otVars, s2Vars, dhVars, anVars, rgVars, registry>>
notSr == <<ixVars, valVars, docVars, otVars, s2Vars, dhVars, anVars, rgVars, registry>>
notDoc == <<ixVars, valVars, srVars, otVars, s2Vars, dhVars, anVars, rgVars, registry>>
notOt == <<ixVars, valVars, srVars, s2Vars, dhVars, anVars, rgVars, registry>>
notSearch == <<ixVars, valVars, docVars, otVars, dhVars, anVars, rgVars, registry>>
notDh == <<ixVars, valVars, srVars, docVars, otVars, s2Vars, anVars, rgVars, registry>>
notAn == <<ixVars, valVars, srVars, docVars, otVars, s2Vars, dhVars, rgVars, registry>>
notRg == <<valVars, srVars, docVars, otVars, s2Vars, dhVars, anVars, registry>>

(***************************************************************************)
(* Bounds                                                                  *)
(***************************************************************************)
MaxItems == 3       \* items per page in the index specification
MaxPages == 2       \* pages of a searched document
LenSlack == 1       \* card candidates run from 13 - LenSlack to 19 + LenSlack digits
MaxContents == 2    \* document contents (opens and edits) in one behaviour

(***************************************************************************)
(* The values the variables of a part keep in the specifications that do   *)
(* not use the part.                                                       *)
(***************************************************************************)
IxIdle ==
    /\ items = <<>> /\ fullText = <<>> /\ charMap = <<>>
    /\ span = <<0, 0>> /\ rects = <<>> /\ ipc = "rects"

ValIdle == kind = "ssn" /\ cand = <<>> /\ verdict = "none" /\ vpc = "done"

SrIdle ==
    /\ pdfDoc = [isNull |-> TRUE, pages |-> <<>>]
    /\ patternNames = <<>> /\ customPattern = <<>>
    /\ pageNum = 0 /\ results = <<>>
    /\ lastIndex = <<>>
    /\ spc = "returned"

\* State.pdfDoc: null before the first document; a loaded document carries
\* the identity of its content (gen) and its page count
NoDoc == [gen |-> 0, numPages |-> 0]

NoLoad == [pc |-> "idle", doc |-> NoDoc]

\* A runOCR call not made yet.  pdfDoc, pageNumbers and i are the call's
\* arguments and loop index, canvas identifies the page render of the
\* current iteration (call, index), error is the rejection's cause.  before
\* (the pages that had an entry when the call was made), alone (no
\* openPDF and no other call since) and reset (openPDF has cleared the
\* store while the call was in flight) are history.
NoRun == [pc |-> "none", pdfDoc |-> NoDoc, pageNumbers |-> <<>>, i |-> 0,
          canvas |-> <<>>, before |-> {}, alone |-> FALSE, reset |-> FALSE,
          error |-> ""]

\* a call whose handler has ended after runOCR resolved
EndedRun == [NoRun EXCEPT !.pc = "ended"]

\* a call whose handler has ended in its catch: runOCR rejected with err;
\* the pages asked for, the index reached and the history stay on record
RejectedRun(run, err) ==
    [run EXCEPT !.pc = "rejected", !.error = err, !.pdfDoc = NoDoc, !.canvas = <<>>]

\* the runOCR calls of a behaviour, in the order they are made: two, so that
\* a second call can be made while the first is at any of its awaits
Runs == {1, 2}

DocIdle ==
    /\ State = [pdfDoc |-> NoDoc, totalPages |-> 0, currentPage |-> 1]
    /\ loader = NoLoad
    /\ contents = 0
    /\ ocrResults = <<>>
    /\ tesseractLoaded = FALSE
    /\ worker = 0
    /\ created = 0
    /\ runs = [r \in Runs |-> NoRun]
    /\ runDisabled = FALSE

OtIdle ==
    /\ ocrPage = 0 /\ nativeViewport = [height |-> 0]
    /\ result = [data |-> <<>>] /\ ocrEntries = <<>> /\ opc = "idle"

S2Idle == pageNum2 = 0 /\ results2 = <<>> /\ spc2 = "returned"

DhIdle == undoStack = <<>> /\ redoStack = <<>> /\ docCalls = <<>>

AnIdle ==
    /\ pageHistory = <<>> /\ pushedPages = {}
    /\ annLast = [op |-> "none"] /\ annCalls = 0

NoStep == [op |-> "none"]

RangeIdle == currentRect = <<>> /\ idx = 0 /\ merged = <<>> /\ lastStep = NoStep

\* every validate property holds the function of the source
RegistryIdle ==
    registry = [k \in {"ssn", "creditCard", "email", "phone", "date", "custom"} |-> "source"]

RgIdle == RangeIdle /\ RegistryIdle

(***************************************************************************)
(* Helpers                                                                 *)
(***************************************************************************)
Abs(n) == IF n < 0 THEN -n ELSE n

Max(a, b) == IF a >= b THEN a ELSE b

SeqsUpTo(S, n) == UNION {[1..k -> S] : k \in 0..n}

(***************************************************************************)
(* src/unnamed/part_003: buildCharMap                                      *)
(***************************************************************************)
\* the null pushed for a separator; a box has null = FALSE
NullPos == [null |-> TRUE, x |-> 0, y |-> 0, w |-> 0, h |-> 0]

\* A text item after the viewport transform: x = tx[4], y = tx[5] (the
\* baseline), fontSize = sqrt(tx[2]^2 + tx[3]^2); width is item.width.
CharBox(item, i) ==
    LET avgCharWidth == item.width \div Len(item.str)
    IN [null |-> FALSE,
        x |-> item.x + avgCharWidth * i,
        y |-> item.y - item.fontSize,
        w |-> avgCharWidth,
        h |-> item.fontSize]

\* faulty variant: the empty-item branch forgets charMap.push(null)
ItemCharsNoNull(item) ==
    IF item.str = <<>>
    THEN [text |-> <<" ">>, map |-> <<>>]
    ELSE [text |-> item.str \o <<" ">>,
          map  |-> [i \in 1..Len(item.str) |-> CharBox(item, i - 1)] \o <<NullPos>>]

\* one iteration of the loop over items: what it appends to fullText and charMap
ItemChars(item) ==
    IF item.str = <<>>
    THEN [text |-> <<" ">>, map |-> <<NullPos>>]
    ELSE [text |-> item.str \o <<" ">>,
          map  |-> [i \in 1..Len(item.str) |-> CharBox(item, i - 1)] \o <<NullPos>>]

RECURSIVE buildCharMapLoop(_, _, _, _)
buildCharMapLoop(its, k, text, map) ==
    IF k > Len(its)
    THEN [fullText |-> text, charMap |-> map]
    ELSE LET c == ItemChars(its[k])
         IN buildCharMapLoop(its, k + 1, text \o c.text, map \o c.map)

\* faulty variant: each item is put in front of the text built so far
RECURSIVE buildCharMapPrepend(_)
buildCharMapPrepend(its) ==
    IF its = <<>>
    THEN [fullText |-> <<>>, charMap |-> <<>>]
    ELSE LET c == ItemChars(Head(its))
             r == buildCharMapPrepend(Tail(its))
         IN [fullText |-> r.fullText \o c.text, charMap |-> r.charMap \o c.map]

buildCharMap(its) == buildCharMapLoop(its, 1, <<>>, <<>>)

(***************************************************************************)
(* src/unnamed/part_003: getRectsForRange                                  *)
(***************************************************************************)
NewRect(pos) == [x |-> pos.x, y |-> pos.y, width |-> pos.w, height |-> pos.h]

\* twice the height of the vertical centre of a box
Centre2(y, h) == 2 * y + h

\* faulty variant: the vertical centres are compared
SameLineCentres(pos, open) ==
    Abs(Centre2(pos.y, pos.h) - Centre2(open.y, open.height)) < pos.h

\* Math.abs(pos.y - currentRect.y) < pos.h * 0.5
SameLine(pos, open) == 2 * Abs(pos.y - open.y) < pos.h

\* faulty variant: an extended rectangle takes the height of its last character
RectStepLastHeight(pos, st) ==
    IF pos.null
    THEN IF st.cur # <<>>
         THEN [rects |-> Append(st.rects, st.cur[1]), cur |-> <<>>]
         ELSE st
    ELSE IF st.cur = <<>>
         THEN [rects |-> st.rects, cur |-> <<NewRect(pos)>>]
         ELSE IF SameLine(pos, st.cur[1])
              THEN [rects |-> st.rects,
                    cur |-> <<[x |-> st.cur[1].x,
                               y |-> st.cur[1].y,
                               width |-> (pos.x + pos.w) - st.cur[1].x,
                               height |-> pos.h]>>]
              ELSE [rects |-> Append(st.rects, st.cur[1]), cur |-> <<NewRect(pos)>>]

\* One iteration of the loop. st.cur is <<>> for currentRect === null and
\* <<r>> for an open rectangle r.
RectStep(pos, st) ==
    IF pos.null
    THEN IF st.cur # <<>>
         THEN [rects |-> Append(st.rects, st.cur[1]), cur |-> <<>>]
         ELSE st
    ELSE IF st.cur = <<>>
         THEN [rects |-> st.rects, cur |-> <<NewRect(pos)>>]
         ELSE IF SameLine(pos, st.cur[1])
              THEN [rects |-> st.rects,
                    cur |-> <<[x |-> st.cur[1].x,
                               y |-> st.cur[1].y,
                               width |-> (pos.x + pos.w) - st.cur[1].x,
                               height |-> Max(st.cur[1].height, pos.h)]>>]
              ELSE [rects |-> Append(st.rects, st.cur[1]), cur |-> <<NewRect(pos)>>]

RECURSIVE getRectsLoop(_, _, _, _)
getRectsLoop(cm, i, endIdx, st) ==
    IF i < endIdx /\ i < Len(cm)
    THEN getRectsLoop(cm, i + 1, endIdx, RectStep(cm[i + 1], st))
    ELSE IF st.cur # <<>> THEN Append(st.rects, st.cur[1]) ELSE st.rects

getRectsForRange(cm, startIdx, endIdx) ==
    getRectsLoop(cm, startIdx, endIdx, [rects |-> <<>>, cur |-> <<>>])

(***************************************************************************)
(* Index specification: buildCharMap and getRectsForRange applied to every *)
(* item list of up to MaxItems items of ItemPool and every span.           *)
(***************************************************************************)
ItemPool ==
    { [str |-> <<"a", "b">>,      x |-> 0,  y |-> 20, fontSize |-> 10, width |-> 10],
      [str |-> <<"c", "d">>,      x |-> 15, y |-> 20, fontSize |-> 10, width |-> 10],
      [str |-> <<"e">>,           x |-> 0,  y |-> 40, fontSize |-> 10, width |-> 5],
      [str |-> <<"f", " ", "g">>, x |-> 30, y |-> 23, fontSize |-> 12, width |-> 18],
      [str |-> <<>>,              x |-> 0,  y |-> 0,  fontSize |-> 0,  width |-> 0] }

InitIndex ==
    /\ items \in SeqsUpTo(ItemPool, MaxItems)
    /\ fullText = <<>>
    /\ charMap = <<>>
    /\ span = <<0, 0>>
    /\ rects = <<>>
    /\ ipc = "input"
    /\ ValIdle
    /\ SrIdle
    /\ DocIdle
    /\ OtIdle
    /\ S2Idle
    /\ DhIdle
    /\ AnIdle /\ RgIdle

BuildIndex ==
    /\ ipc = "input"
    /\ LET r == buildCharMap(items)
       IN /\ fullText' = r.fullText
          /\ charMap' = r.charMap
    /\ ipc' = "built"
    /\ UNCHANGED <<items, span, rects>>
    /\ UNCHANGED notIx

RectsFor ==
    /\ ipc = "built"
    /\ \E startIdx \in 0..Len(charMap) :
         \E endIdx \in startIdx..(Len(charMap) + 1) :
            /\ span' = <<startIdx, endIdx>>
            /\ rects' = getRectsForRange(charMap, startIdx, endIdx)
    /\ ipc' = "rects"
    /\ UNCHANGED <<items, fullText, charMap>>
    /\ UNCHANGED notIx

NextIndex == BuildIndex \/ RectsFor

SpecIndex == InitIndex /\ [][NextIndex]_vars

(***************************************************************************)
(* Properties of the index                                                 *)
(***************************************************************************)
\* offset in fullText of the first character of item k (1-based k); with
\* k = Len(its) + 1, the length of the whole text
RECURSIVE ItemOffset(_, _)
ItemOffset(its, k) ==
    IF k <= 1 THEN 0 ELSE ItemOffset(its, k - 1) + Len(its[k - 1].str) + 1

\* C1: for every item list (empty list and empty items included) the text
\* and the character map returned by buildCharMap have the same length.
C1_SameLength == ipc # "input" => Len(fullText) = Len(charMap)

\* an index built from a list that holds an empty item and a non-empty one
C1_Witness ==
    /\ ipc = "built"
    /\ \E k \in 1..Len(items) : items[k].str = <<>>
    /\ \E k \in 1..Len(items) : items[k].str # <<>>

\* C2: the text is the items' texts in the supplied order, each followed by
\* one inserted space; the character map is null exactly at the inserted
\* spaces and holds a box at every other offset.
C2_TextIsConcatenation ==
    ipc # "input" =>
        /\ Len(fullText) = ItemOffset(items, Len(items) + 1)
        /\ Len(charMap) = Len(fullText)
        /\ \A k \in 1..Len(items) :
             LET off == ItemOffset(items, k)
                 n   == Len(items[k].str)
             IN /\ \A i \in 1..n : /\ fullText[off + i] = items[k].str[i]
                                   /\ ~charMap[off + i].null
                /\ fullText[off + n + 1] = " "
                /\ charMap[off + n + 1].null

\* an index of three items that are not in left-to-right, top-down order
C2_Witness ==
    /\ ipc = "built"
    /\ Len(items) = 3
    /\ items[1].y > items[2].y
    /\ items[2].str # <<>> /\ items[3].str # <<>>
    /\ items[1].str # items[2].str

\* The span covers characters of items k and k + 1 and of no other item.
SpansRuns(k) ==
    /\ k + 1 <= Len(items)
    /\ items[k].str # <<>> /\ items[k + 1].str # <<>>
    /\ span[1] >= ItemOffset(items, k)
    /\ span[1] < ItemOffset(items, k) + Len(items[k].str)
    /\ span[2] > ItemOffset(items, k + 1)
    /\ span[2] <= ItemOffset(items, k + 1) + Len(items[k + 1].str)

\* C3: a span over characters of two consecutive runs yields exactly one
\* rectangle when the runs lie on the same line (same baseline and font
\* size) and exactly two when a line break lies between them.
C3_OneRectPerLine ==
    ipc = "rects" =>
        \A k \in 1..Len(items) :
            SpansRuns(k) =>
                /\ (items[k].y = items[k + 1].y /\ items[k].fontSize = items[k + 1].fontSize)
                      => Len(rects) = 1
                /\ Abs(items[k].y - items[k + 1].y) >= items[k + 1].fontSize
                      => Len(rects) = 2

(***************************************************************************)
(* src/unnamed/part_003: the validators of REDACTION_PATTERNS and luhnCheck *)
(***************************************************************************)
DigitChars == <<"0", "1", "2", "3", "4", "5", "6", "7", "8", "9">>

Digits == {DigitChars[i] : i \in 1..Len(DigitChars)}

\* \s of the regular expressions, as far as the texts of the model go
WhiteSpace == {" ", "\t", "\n"}

DigitVal(c) == (CHOOSE i \in 1..Len(DigitChars) : DigitChars[i] = c) - 1

Filter(s, S) == SelectSeq(s, LAMBDA c : c \in S)

FilterOut(s, S) == SelectSeq(s, LAMBDA c : c \notin S)

\* string.substring(from, to), 0-based, to exclusive, both clamped
Substring(s, from, to) ==
    LET a == IF from > Len(s) THEN Len(s) ELSE from
        b == IF to > Len(s) THEN Len(s) ELSE to
    IN IF b <= a THEN <<>> ELSE SubSeq(s, a + 1, b)

\* parseInt(s): the value of the leading digits of s; NaN (no leading digit)
\* is -1, which like NaN is neither 0 nor 666 nor >= 900
RECURSIVE ParseIntFrom(_, _, _)
ParseIntFrom(s, i, acc) ==
    IF i > Len(s) \/ s[i] \notin Digits
    THEN acc
    ELSE ParseIntFrom(s, i + 1, 10 * (IF acc < 0 THEN 0 ELSE acc) + DigitVal(s[i]))

ParseInt(s) == ParseIntFrom(s, 1, -1)

\* faulty variant: the group test looks at the wrong two digits (substring(2, 4))
ssnValidateWrongGroup(match) ==
    LET digits == FilterOut(match, {"-"} \cup WhiteSpace)
        area == ParseInt(Substring(digits, 0, 3))
    IN IF Len(digits) # 9 THEN FALSE
       ELSE IF area = 0 \/ area = 666 \/ area >= 900 THEN FALSE
       ELSE IF Substring(digits, 2, 4) = <<"0", "0">> THEN FALSE
       ELSE IF Substring(digits, 5, Len(digits)) = <<"0", "0", "0", "0">> THEN FALSE
       ELSE TRUE

\* REDACTION_PATTERNS.ssn.validate
ssnValidate(match) ==
    LET digits == FilterOut(match, {"-"} \cup WhiteSpace)
        area == ParseInt(Substring(digits, 0, 3))
    IN IF Len(digits) # 9 THEN FALSE
       ELSE IF area = 0 \/ area = 666 \/ area >= 900 THEN FALSE
       ELSE IF Substring(digits, 3, 5) = <<"0", "0">> THEN FALSE
       ELSE IF Substring(digits, 5, Len(digits)) = <<"0", "0", "0", "0">> THEN FALSE
       ELSE TRUE

\* the loop of luhnCheck, from i = num.length - 1 down to 0; parseInt of a
\* character that is no digit is NaN, and the sum stays NaN (-1 here)
RECURSIVE luhnLoop(_, _, _, _)
luhnLoop(num, i, sum, alt) ==
    IF i < 0
    THEN sum
    ELSE LET p == ParseInt(<<num[i + 1]>>)
             n == IF alt THEN (IF 2 * p > 9 THEN 2 * p - 9 ELSE 2 * p) ELSE p
         IN IF p < 0 \/ sum < 0
            THEN luhnLoop(num, i - 1, -1, ~alt)
            ELSE luhnLoop(num, i - 1, sum + n, ~alt)

\* faulty variant: the doubling starts with the rightmost digit (alt = true)
luhnCheckAltFirst(num) ==
    LET sum == luhnLoop(num, Len(num) - 1, 0, TRUE)
    IN sum >= 0 /\ sum % 10 = 0

luhnCheck(num) ==
    LET sum == luhnLoop(num, Len(num) - 1, 0, FALSE)
    IN sum >= 0 /\ sum % 10 = 0

\* REDACTION_PATTERNS.creditCard.validate
creditCardValidate(match) ==
    LET digits == FilterOut(match, {"-"} \cup WhiteSpace)
    IN IF Len(digits) < 13 \/ Len(digits) > 19 THEN FALSE
       ELSE luhnCheck(digits)

\* REDACTION_PATTERNS.phone.validate: \D removes everything but digits
phoneValidate(match) ==
    LET digits == Filter(match, Digits)
    IN Len(digits) >= 10 /\ Len(digits) <= 11

\* REDACTION_PATTERNS[name].validate(match); email, date and custom accept all
Validate(name, match) ==
    CASE name = "ssn" -> ssnValidate(match)
      [] name = "creditCard" -> creditCardValidate(match)
      [] name = "phone" -> phoneValidate(match)
      [] OTHER -> TRUE

(***************************************************************************)
(* Validator specification: the SSN and the card validator applied to      *)
(* candidates made of digits, hyphens and whitespace (what the patterns'   *)
(* regular expressions can hand them), of all lengths around the limits.   *)
(***************************************************************************)
AreaPool ==
    { <<"0","0","0">>, <<"0","0","1">>, <<"0","7","8">>, <<"1","2","3">>,
      <<"6","6","5">>, <<"6","6","6">>, <<"6","6","7">>, <<"8","9","9">>,
      <<"9","0","0">>, <<"9","9","9">> }

GroupPool == { <<"0","0">>, <<"0","1">>, <<"0","5">>, <<"1","0">> }

SerialPool ==
    { <<"0","0","0","0">>, <<"0","0","0","1">>, <<"1","1","2","0">>,
      <<"4","5","6","7">>, <<"1","1","2">>, <<"0","0","0","0","0">> }

SepPool == { <<>>, <<"-">>, <<" ">> }

SsnCandidates ==
    { a \o s1 \o g \o s2 \o r :
        a \in AreaPool, s1 \in SepPool, g \in GroupPool, s2 \in SepPool, r \in SerialPool }

CardBases ==
    { <<"4","5","3","2","0","1","5","1","1","2","8","3","0","3","6","6">>,
      <<"4","1","1","1","1","1","1","1","1","1","1","1","1","1","1","1">>,
      <<"0","0","0","0","0","0","0","0","0","0","0","0","0","0","0","0">> }

\* s with sep put after every fourth character but the last
RECURSIVE Grouped(_, _)
Grouped(s, sep) ==
    IF Len(s) <= 4 THEN s
    ELSE SubSeq(s, 1, 4) \o sep \o Grouped(SubSeq(s, 5, Len(s)), sep)

\* the first n - 1 digits of base base base ... followed by the digit d
CardDigits(base, n, d) ==
    [i \in 1..n |-> IF i = n THEN DigitChars[d + 1] ELSE base[((i - 1) % Len(base)) + 1]]

CardCandidates ==
    { Grouped(CardDigits(b, n, d), sep) :
        b \in CardBases, n \in (13 - LenSlack)..(19 + LenSlack), d \in 0..9, sep \in SepPool }

InitValidate ==
    /\ kind \in {"ssn", "creditCard"}
    /\ cand \in (IF kind = "ssn" THEN SsnCandidates ELSE CardCandidates)
    /\ verdict = "none"
    /\ vpc = "input"
    /\ IxIdle
    /\ SrIdle
    /\ DocIdle
    /\ OtIdle
    /\ S2Idle
    /\ DhIdle
    /\ AnIdle /\ RgIdle

ValidateSsn ==
    /\ vpc = "input" /\ kind = "ssn"
    /\ verdict' = IF Validate("ssn", cand) THEN "accept" ELSE "reject"
    /\ vpc' = "done"
    /\ UNCHANGED <<kind, cand>>
    /\ UNCHANGED notVal

ValidateCard ==
    /\ vpc = "input" /\ kind = "creditCard"
    /\ verdict' = IF Validate("creditCard", cand) THEN "accept" ELSE "reject"
    /\ vpc' = "done"
    /\ UNCHANGED <<kind, cand>>
    /\ UNCHANGED notVal

NextValidate == ValidateSsn \/ ValidateCard

SpecValidate == InitValidate /\ [][NextValidate]_vars

(***************************************************************************)
(* Properties of the validators                                            *)
(***************************************************************************)
\* the digits of s, hyphens and whitespace removed
DigitsOf(s) == FilterOut(s, {"-", " ", "\t", "\n"})

\* the number a digit string denotes
RECURSIVE NumVal(_)
NumVal(s) == IF s = <<>> THEN 0 ELSE 10 * NumVal(SubSeq(s, 1, Len(s) - 1)) + DigitVal(s[Len(s)])

\* C6: the SSN validator accepts exactly the candidates that, hyphens and
\* whitespace removed, have 9 digits, an area other than 000, 666 and
\* 900-999, a group other than 00 and a serial other than 0000; it accepts
\* 078-05-1120 and rejects 000-12-3456 and 123-00-4567.
SsnWellFormed(s) ==
    LET d == DigitsOf(s)
    IN /\ Len(d) = 9
       /\ \A i \in 1..9 : d[i] \in Digits
       /\ NumVal(SubSeq(d, 1, 3)) \notin ({0, 666} \cup 900..999)
       /\ NumVal(SubSeq(d, 4, 5)) # 0
       /\ NumVal(SubSeq(d, 6, 9)) # 0

C6_SsnValidator ==
    /\ (vpc = "done" /\ kind = "ssn") => (verdict = "accept" <=> SsnWellFormed(cand))
    /\ ssnValidate(<<"0","7","8","-","0","5","-","1","1","2","0">>)
    /\ ~ssnValidate(<<"0","0","0","-","1","2","-","3","4","5","6">>)
    /\ ~ssnValidate(<<"1","2","3","-","0","0","-","4","5","6","7">>)

\* a candidate with a good area and serial that is rejected for its group
\* alone, third digit of the area being 0
C6_Witness ==
    /\ vpc = "done" /\ kind = "ssn" /\ verdict = "reject"
    /\ cand = <<"1","2","3","-","0","0","-","4","5","6","7">>

\* the Luhn total of a digit string: the digit at distance k from the right
\* end counts double (less 9 when above 9) when k is odd
LuhnTerm(d, double) == IF double THEN (IF 2 * d > 9 THEN 2 * d - 9 ELSE 2 * d) ELSE d

RECURSIVE LuhnTotal(_, _)
LuhnTotal(s, i) ==
    IF i > Len(s) THEN 0
    ELSE LuhnTerm(DigitVal(s[i]), (Len(s) - i) % 2 = 1) + LuhnTotal(s, i + 1)

\* C7: the card validator accepts exactly the candidates that, hyphens and
\* whitespace removed, have 13 to 19 digits and a Luhn total divisible by
\* 10; it accepts 4532015112830366 and rejects 4532015112830367.
CardWellFormed(s) ==
    LET d == DigitsOf(s)
    IN /\ Len(d) >= 13 /\ Len(d) <= 19
       /\ \A i \in 1..Len(d) : d[i] \in Digits
       /\ LuhnTotal(d, 1) % 10 = 0

C7_CardValidator ==
    /\ (vpc = "done" /\ kind = "creditCard") => (verdict = "accept" <=> CardWellFormed(cand))
    /\ creditCardValidate(<<"4","5","3","2","0","1","5","1","1","2","8","3","0","3","6","6">>)
    /\ ~creditCardValidate(<<"4","5","3","2","0","1","5","1","1","2","8","3","0","3","6","7">>)

\* a 19-digit candidate with separators that passes the checksum
C7_Witness ==
    /\ vpc = "done" /\ kind = "creditCard" /\ verdict = "accept"
    /\ Len(DigitsOf(cand)) = 19 /\ Len(cand) > 19

(***************************************************************************)
(* Regular expressions (RegExp.prototype.exec as searchPatterns uses it).  *)
(* A compiled expression is a tree:                                        *)
(*   [t |-> "set", s |-> S]          one character of the set S            *)
(*   [t |-> "nset", s |-> S]         one character not in S                *)
(*   [t |-> "wb"]                    \b                                    *)
(*   [t |-> "bol"], [t |-> "eol"]    ^ and $                               *)
(*   [t |-> "cat", l |-> <<..>>]     the members of l one after the other  *)
(*   [t |-> "alt", l |-> <<..>>]     the alternatives of l, leftmost first *)
(*   [t |-> "rep", r, min, max, greedy]   r{min,max}; max = -1: no limit   *)
(* Ends gives, for a start offset, the end offsets of the matches in the   *)
(* order backtracking tries them; the first one is the match exec reports. *)
(***************************************************************************)
LowerChars == <<"a", "b", "c", "d", "e", "f", "g", "h", "i", "j", "k", "l", "m",
                "n", "o", "p", "q", "r", "s", "t", "u", "v", "w", "x", "y", "z">>

UpperChars == <<"A", "B", "C", "D", "E", "F", "G", "H", "I", "J", "K", "L", "M",
                "N", "O", "P", "Q", "R", "S", "T", "U", "V", "W", "X", "Y", "Z">>

Lower == {LowerChars[i] : i \in 1..Len(LowerChars)}

Upper == {UpperChars[i] : i \in 1..Len(UpperChars)}

Alpha == Lower \cup Upper

WordChars == Alpha \cup Digits \cup {"_"}

\* the other case of a letter; any other character is its own
SwapCase(c) ==
    IF c \in Lower THEN UpperChars[CHOOSE i \in 1..Len(LowerChars) : LowerChars[i] = c]
    ELSE IF c \in Upper THEN LowerChars[CHOOSE i \in 1..Len(UpperChars) : UpperChars[i] = c]
    ELSE c

\* c is in S, under the i flag (ic) in either case
CharIn(c, S, ic) == c \in S \/ (ic /\ SwapCase(c) \in S)

Chr(S) == [t |-> "set", s |-> S]

Cat(l) == [t |-> "cat", l |-> l]

Alt(l) == [t |-> "alt", l |-> l]

Rep(r, min, max) == [t |-> "rep", r |-> r, min |-> min, max |-> max, greedy |-> TRUE]

Wb == [t |-> "wb"]

\* the literal string s
Lit(s) == Cat([i \in 1..Len(s) |-> Chr({s[i]})])

\* s without the elements that occurred before
RECURSIVE DedupFrom(_, _)
DedupFrom(s, seen) ==
    IF s = <<>> THEN <<>>
    ELSE IF Head(s) \in seen THEN DedupFrom(Tail(s), seen)
    ELSE <<Head(s)>> \o DedupFrom(Tail(s), seen \cup {Head(s)})

Dedup(s) == IF Len(s) <= 1 THEN s ELSE DedupFrom(s, {})

\* the sequences of ss one after the other
RECURSIVE Concat(_)
Concat(ss) == IF ss = <<>> THEN <<>> ELSE Head(ss) \o Concat(Tail(ss))

Flatten(ss) == Concat(SelectSeq(ss, LAMBDA x : x # <<>>))

IsWordAt(txt, i) == i >= 0 /\ i < Len(txt) /\ txt[i + 1] \in WordChars

\* r matches one character at a time (a class)
IsClass(r) == r.t \in {"set", "nset"}

ClassMatches(r, c, ic) ==
    IF r.t = "set" THEN CharIn(c, r.s, ic) ELSE ~CharIn(c, r.s, ic)

\* how many characters from offset i on the class r matches in a row
RunLength(r, txt, i, ic) ==
    CHOOSE k \in 0..(Len(txt) - i) :
        /\ \A j \in 1..k : ClassMatches(r, txt[i + j], ic)
        /\ (i + k = Len(txt) \/ ~ClassMatches(r, txt[i + k + 1], ic))

RECURSIVE Ends(_, _, _, _)
RECURSIVE CatEnds(_, _, _, _, _)
RECURSIVE RepEnds(_, _, _, _, _)
RECURSIVE RepMore(_, _, _, _, _, _)

\* a class repeated: the longest run first when greedy, the shortest when lazy
ClassRepEnds(r, txt, i, ic) ==
    LET run == RunLength(r.r, txt, i, ic)
        hi == IF r.max >= 0 /\ r.max < run THEN r.max ELSE run
        n == hi - r.min + 1
    IN IF hi < r.min THEN <<>>
       ELSE [j \in 1..n |-> IF r.greedy THEN i + hi - (j - 1) ELSE i + r.min + (j - 1)]

Ends(r, txt, i, ic) ==
    CASE IsClass(r) ->
            IF i < Len(txt) /\ ClassMatches(r, txt[i + 1], ic) THEN <<i + 1>> ELSE <<>>
      [] r.t = "wb" ->
            IF IsWordAt(txt, i - 1) # IsWordAt(txt, i) THEN <<i>> ELSE <<>>
      [] r.t = "bol" -> IF i = 0 THEN <<i>> ELSE <<>>
      [] r.t = "eol" -> IF i = Len(txt) THEN <<i>> ELSE <<>>
      [] r.t = "cat" -> CatEnds(r.l, 1, txt, <<i>>, ic)
      [] r.t = "alt" -> Dedup(Flatten([k \in 1..Len(r.l) |-> Ends(r.l[k], txt, i, ic)]))
      [] r.t = "rep" ->
            IF IsClass(r.r) THEN ClassRepEnds(r, txt, i, ic) ELSE RepEnds(r, txt, i, 0, ic)

\* the members of l from the k-th on, started at each offset of starts in turn
CatEnds(l, k, txt, starts, ic) ==
    IF k > Len(l) \/ starts = <<>> THEN starts
    ELSE CatEnds(l, k + 1, txt,
                 Dedup(Flatten([j \in 1..Len(starts) |-> Ends(l[k], txt, starts[j], ic)])),
                 ic)

\* r.r repeated, n repetitions done so far, now at offset i
RepEnds(r, txt, i, n, ic) ==
    LET stop == IF n >= r.min THEN <<i>> ELSE <<>>
        more == IF r.max >= 0 /\ n >= r.max THEN <<>>
                ELSE RepMore(r, txt, i, n, Ends(r.r, txt, i, ic), ic)
    IN Dedup(IF r.greedy THEN more \o stop ELSE stop \o more)

\* the repetitions after one more match of the body, ending at each of body;
\* once min is reached a repetition that matched nothing is given up
RepMore(r, txt, i, n, body, ic) ==
    IF body = <<>> THEN <<>>
    ELSE (IF Head(body) = i /\ n >= r.min
          THEN <<>>
          ELSE RepEnds(r, txt, Head(body), n + 1, ic))
         \o RepMore(r, txt, i, n, Tail(body), ic)

\* the match of exec: ends[i] are the end offsets of the matches that start
\* at offset i, for every i from lastIndex to the end of the text
ExecPick(ends) ==
    IF \A i \in DOMAIN ends : ends[i] = <<>>
    THEN [found |-> FALSE, index |-> 0, end |-> 0, lastIndex |-> 0]
    ELSE CHOOSE m \in {[found |-> TRUE, index |-> i, end |-> ends[i][1],
                        lastIndex |-> ends[i][1]] : i \in {j \in DOMAIN ends : ends[j] # <<>>}} :
             \A j \in DOMAIN ends : j < m.index => ends[j] = <<>>

\* faulty variant: after a match the scan resumes one character after its start
ExecResumeAtNext(regex, txt, li) ==
    [ExecPick([i \in li..Len(txt) |-> Ends(regex.re, txt, i, regex.ic)])
        EXCEPT !.lastIndex = IF @ = 0 THEN 0 ELSE
            ExecPick([i \in li..Len(txt) |-> Ends(regex.re, txt, i, regex.ic)]).index + 1]

\* regex.exec(txt) of a global expression whose lastIndex is li: the
\* leftmost match at or after li. found = FALSE is the null result;
\* lastIndex is the value exec leaves in regex.lastIndex (the end of the
\* match, 0 after a failure).
Exec(regex, txt, li) ==
    ExecPick([i \in li..Len(txt) |-> Ends(regex.re, txt, i, regex.ic)])

(***************************************************************************)
(* src/unnamed/part_003: REDACTION_PATTERNS, the regular expressions       *)
(***************************************************************************)
D == Chr(Digits)

Opt(r) == Rep(r, 0, 1)

\* [-\s]
HyphenOrSpace == Chr({"-"} \cup WhiteSpace)

\* [-.\s]
PhoneSep == Chr({"-", "."} \cup WhiteSpace)

\* /\b\d{3}[-\s]?\d{2}[-\s]?\d{4}\b/g
ssnRegex ==
    [re |-> Cat(<<Wb, Rep(D, 3, 3), Opt(HyphenOrSpace), Rep(D, 2, 2),
                  Opt(HyphenOrSpace), Rep(D, 4, 4), Wb>>),
     ic |-> FALSE]

\* /\b(?:\d{4}[-\s]?){3}\d{1,4}\b/g
creditCardRegex ==
    [re |-> Cat(<<Wb, Rep(Cat(<<Rep(D, 4, 4), Opt(HyphenOrSpace)>>), 3, 3),
                  Rep(D, 1, 4), Wb>>),
     ic |-> FALSE]

\* /\b[A-Za-z0-9._%+\-]+@[A-Za-z0-9.\-]+\.[A-Za-z]{2,}\b/g
emailRegex ==
    [re |-> Cat(<<Wb, Rep(Chr(Alpha \cup Digits \cup {".", "_", "%", "+", "-"}), 1, -1),
                  Chr({"@"}),
                  Rep(Chr(Alpha \cup Digits \cup {".", "-"}), 1, -1),
                  Chr({"."}), Rep(Chr(Alpha), 2, -1), Wb>>),
     ic |-> FALSE]

\* /(?:\+?1[-.\s]?)?\(?\d{3}\)?[-.\s]?\d{3}[-.\s]?\d{4}\b/g
phoneRegex ==
    [re |-> Cat(<<Opt(Cat(<<Opt(Chr({"+"})), Chr({"1"}), Opt(PhoneSep)>>)),
                  Opt(Chr({"("})), Rep(D, 3, 3), Opt(Chr({")"})), Opt(PhoneSep),
                  Rep(D, 3, 3), Opt(PhoneSep), Rep(D, 4, 4), Wb>>),
     ic |-> FALSE]

MonthNames ==
    << <<"J","a","n">>, <<"F","e","b">>, <<"M","a","r">>, <<"A","p","r">>,
       <<"M","a","y">>, <<"J","u","n">>, <<"J","u","l">>, <<"A","u","g">>,
       <<"S","e","p">>, <<"O","c","t">>, <<"N","o","v">>, <<"D","e","c">> >>

\* /\b(?:\d{1,2}[\/\-]\d{1,2}[\/\-]\d{2,4}|(?:Jan|...|Dec)[a-z]*\.?\s+\d{1,2},?\s+\d{4})\b/gi
dateRegex ==
    [re |-> Cat(<<Wb,
                  Alt(<<Cat(<<Rep(D, 1, 2), Chr({"/", "-"}), Rep(D, 1, 2),
                              Chr({"/", "-"}), Rep(D, 2, 4)>>),
                        Cat(<<Alt([m \in 1..Len(MonthNames) |-> Lit(MonthNames[m])]),
                              Rep(Chr(Lower), 0, -1), Opt(Chr({"."})),
                              Rep(Chr(WhiteSpace), 1, -1), Rep(D, 1, 2),
                              Opt(Chr({","})), Rep(Chr(WhiteSpace), 1, -1),
                              Rep(D, 4, 4)>>)>>),
                  Wb>>),
     ic |-> TRUE]

BuiltIn == {"ssn", "creditCard", "email", "phone", "date"}

\* REDACTION_PATTERNS[name].regex of a built-in pattern
PatternRegex(name) ==
    CASE name = "ssn" -> ssnRegex
      [] name = "creditCard" -> creditCardRegex
      [] name = "email" -> emailRegex
      [] name = "phone" -> phoneRegex
      [] name = "date" -> dateRegex

(***************************************************************************)
(* new RegExp(source, 'gi') and escapeRegex (src/unnamed/part_003).        *)
(* RegExpCompile parses the pattern syntax the custom patterns of the      *)
(* model use: literal characters, ".", "\" escapes, groups "(...)" and     *)
(* "(?:...)", alternation, classes "[...]" without ranges, "^", "$" and    *)
(* the quantifiers "*", "+", "?" with their lazy forms. Braces and "]"     *)
(* outside a class are literal characters, as they are in a pattern        *)
(* compiled without the u flag. ok = FALSE is the SyntaxError.             *)
(***************************************************************************)
ParseFail == [ok |-> FALSE, node |-> Cat(<<>>), pos |-> 0]

ParseOk(node, pos) == [ok |-> TRUE, node |-> node, pos |-> pos]

QuantChars == {"*", "+", "?"}

\* the atom that ends before pos, with the quantifier that follows it, if any
WithQuantifier(src, atom, pos) ==
    IF pos <= Len(src) /\ src[pos] \in QuantChars
    THEN LET lazy == pos + 1 <= Len(src) /\ src[pos + 1] = "?"
         IN ParseOk([t |-> "rep", r |-> atom,
                     min |-> IF src[pos] = "+" THEN 1 ELSE 0,
                     max |-> IF src[pos] = "?" THEN 1 ELSE -1,
                     greedy |-> ~lazy],
                    IF lazy THEN pos + 2 ELSE pos + 1)
    ELSE ParseOk(atom, pos)

\* an assertion takes no quantifier: "nothing to repeat"
NoQuantifier(src, node, pos) ==
    IF pos <= Len(src) /\ src[pos] \in QuantChars THEN ParseFail ELSE ParseOk(node, pos)

\* the atom or assertion an escape \e stands for
EscapeNode(e) ==
    CASE e = "d" -> Chr(Digits)
      [] e = "D" -> [t |-> "nset", s |-> Digits]
      [] e = "s" -> Chr(WhiteSpace)
      [] e = "S" -> [t |-> "nset", s |-> WhiteSpace]
      [] e = "w" -> Chr(WordChars)
      [] e = "W" -> [t |-> "nset", s |-> WordChars]
      [] e = "n" -> Chr({"\n"})
      [] e = "t" -> Chr({"\t"})
      [] e = "b" -> Wb
      [] OTHER -> Chr({e})

\* the characters an escape \e adds to a class
EscapeSet(e) ==
    CASE e = "d" -> Digits
      [] e = "s" -> WhiteSpace
      [] e = "w" -> WordChars
      [] e = "n" -> {"\n"}
      [] e = "t" -> {"\t"}
      [] OTHER -> {e}

\* the members of a class, from pos (after "[" or "[^") to the closing "]"
RECURSIVE ParseClass(_, _, _)
ParseClass(src, pos, acc) ==
    IF pos > Len(src) THEN [ok |-> FALSE, set |-> {}, pos |-> 0]
    ELSE IF src[pos] = "]" THEN [ok |-> TRUE, set |-> acc, pos |-> pos + 1]
    ELSE IF src[pos] = "\\"
         THEN IF pos = Len(src) THEN [ok |-> FALSE, set |-> {}, pos |-> 0]
              ELSE ParseClass(src, pos + 2, acc \cup EscapeSet(src[pos + 1]))
    ELSE ParseClass(src, pos + 1, acc \cup {src[pos]})

RECURSIVE ParseDisjunction(_, _, _)
RECURSIVE ParseAlternative(_, _, _)
RECURSIVE ParseTerm(_, _)

\* a class whose members cl were read
ClassAtom(src, neg, cl) ==
    IF ~cl.ok THEN ParseFail
    ELSE WithQuantifier(src, [t |-> IF neg THEN "nset" ELSE "set", s |-> cl.set], cl.pos)

\* a group whose disjunction d was read: the ")" must follow
GroupAtom(src, d) ==
    IF ~d.ok THEN ParseFail
    ELSE IF d.pos > Len(src) \/ src[d.pos] # ")" THEN ParseFail
    ELSE WithQuantifier(src, d.node, d.pos + 1)

ParseTerm(src, pos) ==
    CASE src[pos] \in QuantChars -> ParseFail
      [] src[pos] = "^" -> NoQuantifier(src, [t |-> "bol"], pos + 1)
      [] src[pos] = "$" -> NoQuantifier(src, [t |-> "eol"], pos + 1)
      [] src[pos] = "." -> WithQuantifier(src, [t |-> "nset", s |-> {"\n", "\r"}], pos + 1)
      [] src[pos] = "\\" ->
             IF pos = Len(src) THEN ParseFail
             ELSE IF src[pos + 1] = "b" THEN NoQuantifier(src, Wb, pos + 2)
             ELSE WithQuantifier(src, EscapeNode(src[pos + 1]), pos + 2)
      [] src[pos] = "[" ->
             IF pos + 1 <= Len(src) /\ src[pos + 1] = "^"
             THEN ClassAtom(src, TRUE, ParseClass(src, pos + 2, {}))
             ELSE ClassAtom(src, FALSE, ParseClass(src, pos + 1, {}))
      [] src[pos] = "(" ->
             IF pos + 1 <= Len(src) /\ src[pos + 1] = "?"
             THEN IF pos + 2 <= Len(src) /\ src[pos + 2] = ":"
                  THEN GroupAtom(src, ParseDisjunction(src, pos + 3, <<>>))
                  ELSE ParseFail
             ELSE GroupAtom(src, ParseDisjunction(src, pos + 1, <<>>))
      [] OTHER -> WithQuantifier(src, Chr({src[pos]}), pos + 1)

\* the alternative goes on after the term t
AfterTerm(src, acc, t) ==
    IF ~t.ok THEN ParseFail ELSE ParseAlternative(src, t.pos, Append(acc, t.node))

ParseAlternative(src, pos, acc) ==
    IF pos > Len(src) \/ src[pos] \in {"|", ")"}
    THEN ParseOk(Cat(acc), pos)
    ELSE AfterTerm(src, acc, ParseTerm(src, pos))

\* the disjunction goes on after the alternative a when a "|" follows
AfterAlternative(src, acc, a) ==
    IF ~a.ok THEN ParseFail
    ELSE IF a.pos <= Len(src) /\ src[a.pos] = "|"
         THEN ParseDisjunction(src, a.pos + 1, Append(acc, a.node))
         ELSE ParseOk(Alt(Append(acc, a.node)), a.pos)

ParseDisjunction(src, pos, acc) ==
    AfterAlternative(src, acc, ParseAlternative(src, pos, <<>>))

\* the whole source must be read: a ")" left over is unmatched
Compiled(source, d) ==
    IF d.ok /\ d.pos > Len(source)
    THEN [ok |-> TRUE, re |-> d.node, ic |-> TRUE]
    ELSE [ok |-> FALSE, re |-> Cat(<<>>), ic |-> TRUE]

\* new RegExp(source, 'gi')
RegExpCompile(source) == Compiled(source, ParseDisjunction(source, 1, <<>>))

\* the characters of the class in escapeRegex: . * + ? ^ $ { } ( ) | [ ] \
MetaChars == {".", "*", "+", "?", "^", "$", "{", "}", "(", ")", "|", "[", "]", "\\"}

\* faulty variant: the class of escapeRegex lacks the parentheses
RECURSIVE escapeRegexNoParens(_)
escapeRegexNoParens(string) ==
    IF string = <<>> THEN <<>>
    ELSE (IF Head(string) \in MetaChars \ {"(", ")"}
          THEN <<"\\", Head(string)>> ELSE <<Head(string)>>)
         \o escapeRegexNoParens(Tail(string))

\* string.replace(/[.*+?^${}()|[\]\\]/g, '\\$&')
RECURSIVE escapeRegex(_)
escapeRegex(string) ==
    IF string = <<>> THEN <<>>
    ELSE (IF Head(string) \in MetaChars THEN <<"\\", Head(string)>> ELSE <<Head(string)>>)
         \o escapeRegex(Tail(string))

(***************************************************************************)
(* src/unnamed/part_003: searchPatterns                                    *)
(***************************************************************************)
\* the keys of REDACTION_PATTERNS
PatternKeys == BuiltIn \cup {"custom"}

\* faulty variant: the validator's verdict is not looked at
PassesValidationAlways(name, matchText) == TRUE

\* line 253: the match goes on to the result list only when
\* pattern.validate accepts it
PassesValidation(name, matchText) == Validate(name, matchText)

\* faulty variant: the entry is pushed without the test rects.length > 0
PushAlways(acc, pn, name, matchText, startIdx, endIdx, rs) ==
    Append(acc, [pageNum |-> pn, pattern |-> name, text |-> matchText,
                 rects |-> rs, index |-> startIdx, end |-> endIdx])

\* lines 260-267: the entry is pushed when the match has a rectangle. An
\* entry records the offsets of its match (index, end) next to the fields
\* of the source.
PushIfRects(acc, pn, name, matchText, startIdx, endIdx, rs) ==
    IF Len(rs) > 0
    THEN Append(acc, [pageNum |-> pn, pattern |-> name, text |-> matchText,
                      rects |-> rs, index |-> startIdx, end |-> endIdx])
    ELSE acc

\* lines 250-267 for the match m: the result list after the loop body
MatchBody(acc, pn, name, matchText, startIdx, cm) ==
    IF ~PassesValidation(name, matchText)
    THEN acc
    ELSE PushIfRects(acc, pn, name, matchText, startIdx, startIdx + Len(matchText),
                     getRectsForRange(cm, startIdx, startIdx + Len(matchText)))

RECURSIVE ScanPattern(_, _, _, _, _, _, _)

\* The loop after the body has run for the match m. A match of length 0
\* leaves lastIndex where it is, so every later exec returns the same match
\* and the loop does not end: status "hung".
ScanNext(regex, name, pn, text, cm, m, acc) ==
    IF m.end = m.index
    THEN [status |-> "hung", results |-> acc, lastIndex |-> m.lastIndex]
    ELSE ScanPattern(regex, name, pn, text, cm, m.lastIndex, acc)

ScanMatch(regex, name, pn, text, cm, m, acc) ==
    IF ~m.found
    THEN [status |-> "ok", results |-> acc, lastIndex |-> m.lastIndex]
    ELSE ScanNext(regex, name, pn, text, cm, m,
                  MatchBody(acc, pn, name, SubSeq(text, m.index + 1, m.end), m.index, cm))

\* the while loop over regex.exec(fullText) of one pattern on one page, from
\* regex.lastIndex = li with the result list acc
ScanPattern(regex, name, pn, text, cm, li, acc) ==
    ScanMatch(regex, name, pn, text, cm, Exec(regex, text, li), acc)

NoRegex == [ok |-> FALSE, re |-> Cat(<<>>), ic |-> FALSE]

\* the catch branch: e is new RegExp(escapeRegex(customPattern), 'gi')
EscapedRegex(e) ==
    IF e.ok THEN [kind |-> "regex", regex |-> e] ELSE [kind |-> "throw", regex |-> NoRegex]

\* the try: c is new RegExp(customPattern, 'gi')
CustomRegex(custom, c) ==
    IF c.ok THEN [kind |-> "regex", regex |-> c]
    ELSE EscapedRegex(RegExpCompile(escapeRegex(custom)))

\* lines 235-244: the regex of one iteration of the pattern loop. kind is
\* "regex", "none" (the loop continues) or "throw" (the SyntaxError of the
\* second new RegExp leaves searchPatterns).
RegexFor(name, custom) ==
    IF name = "custom" /\ custom # <<>>
    THEN CustomRegex(custom, RegExpCompile(custom))
    ELSE IF name = "custom"
         THEN [kind |-> "none", regex |-> NoRegex]
         ELSE [kind |-> "regex", regex |-> PatternRegex(name)]

\* f with the value at key k replaced (k need not be a key of f)
Put(f, k, v) == [x \in DOMAIN f |-> IF x = k THEN v ELSE f[x]]

\* the state of the pattern loop after the scan sc of the pattern name
Scanned(st, name, sc) ==
    [status |-> sc.status, results |-> sc.results,
     lastIndex |-> Put(st.lastIndex, name, sc.lastIndex)]

\* one exec from regex.lastIndex = li and the loop body for its match
ScanOnce(name, pn, text, cm, m, acc) ==
    [status |-> "ok",
     results |-> IF m.found
                 THEN MatchBody(acc, pn, name, SubSeq(text, m.index + 1, m.end), m.index, cm)
                 ELSE acc,
     lastIndex |-> m.lastIndex]

\* faulty variant: lastIndex is not reset and the loop ends after one exec
ScanWithNoReset(r, name, pn, text, cm, st) ==
    CASE r.kind = "none" -> st
      [] r.kind = "throw" ->
            [status |-> "threw", results |-> st.results, lastIndex |-> st.lastIndex]
      [] r.kind = "regex" ->
            Scanned(st, name,
                    ScanOnce(name, pn, text, cm,
                             Exec(r.regex, text,
                                  IF name \in DOMAIN st.lastIndex THEN st.lastIndex[name] ELSE 0),
                             st.results))

\* one iteration of the pattern loop with the regex r: regex.lastIndex = 0
\* and the while loop
ScanWith(r, name, pn, text, cm, st) ==
    CASE r.kind = "none" -> st
      [] r.kind = "throw" ->
            [status |-> "threw", results |-> st.results, lastIndex |-> st.lastIndex]
      [] r.kind = "regex" ->
            Scanned(st, name, ScanPattern(r.regex, name, pn, text, cm, 0, st.results))

\* The pattern loop of one page, from the k-th name on. st is
\* [status, results, lastIndex].
RECURSIVE ScanPage(_, _, _, _, _, _, _)
ScanPage(names, custom, pn, text, cm, k, st) ==
    IF k > Len(names) \/ st.status # "ok"
    THEN st
    ELSE ScanPage(names, custom, pn, text, cm, k + 1,
                  IF names[k] \notin PatternKeys
                  THEN st
                  ELSE ScanWith(RegexFor(names[k], custom), names[k], pn, text, cm, st))

\* if (!pdfDoc) return [];
SearchNoDoc ==
    /\ spc = "idle"
    /\ pdfDoc.isNull
    /\ results' = <<>>
    /\ spc' = "returned"
    /\ UNCHANGED <<pdfDoc, patternNames, customPattern, pageNum, lastIndex>>
    /\ UNCHANGED notSr

\* the call up to the first await of the page loop
SearchStart ==
    /\ spc = "idle"
    /\ ~pdfDoc.isNull
    /\ results' = <<>>
    /\ pageNum' = 1
    /\ spc' = IF 1 <= Len(pdfDoc.pages) THEN "page" ELSE "returned"
    /\ UNCHANGED <<pdfDoc, patternNames, customPattern, lastIndex>>
    /\ UNCHANGED notSr

\* One iteration of the page loop after its awaits: buildCharMap, the pattern
\* loop, pageNum++ and, after the last page, the return.
SearchPage ==
    /\ spc = "page"
    /\ \E b \in {buildCharMap(pdfDoc.pages[pageNum])} :
       \E st \in {ScanPage(patternNames, customPattern, pageNum, b.fullText, b.charMap, 1,
                            [status |-> "ok", results |-> results, lastIndex |-> lastIndex])} :
          /\ results' = st.results
          /\ lastIndex' = st.lastIndex
          /\ IF st.status = "ok"
             THEN /\ pageNum' = pageNum + 1
                  /\ spc' = IF pageNum + 1 <= Len(pdfDoc.pages) THEN "page" ELSE "returned"
             ELSE /\ pageNum' = pageNum
                  /\ spc' = st.status
    /\ UNCHANGED <<pdfDoc, patternNames, customPattern>>
    /\ UNCHANGED notSr

NextSearch == SearchNoDoc \/ SearchStart \/ SearchPage

(***************************************************************************)
(* Search specification: one searchPatterns call on every document of up   *)
(* to MaxPages pages of PagePool (or no document), for the selections of   *)
(* Selections and the custom patterns of CustomPool.                       *)
(***************************************************************************)
\* a text item of font size 10 and 5 units per character, baseline at y
It(str, x, y) == [str |-> str, x |-> x, y |-> y, fontSize |-> 10, width |-> 5 * Len(str)]

\* a page without text items
pgNoItems == <<>>

\* a page whose items all have an empty str
pgBlank ==
    << It(<<>>, 0, 0),
       It(<<>>, 0, 0) >>

\* a valid SSN and one the validator rejects, on two lines
pgSsn ==
    << It(<<"0", "7", "8", "-", "0", "5", "-", "1", "1", "2", "0">>, 0, 20),
       It(<<"0", "0", "0", "-", "1", "2", "-", "3", "4", "5", "6">>, 0, 40) >>

\* an SSN whose digits lie in two runs of one line
pgSsnSplit ==
    << It(<<"0", "7", "8", "-", "0", "5">>, 0, 20),
       It(<<"1", "1", "2", "0">>, 35, 20) >>

\* a card number that passes the Luhn check and one that fails it
pgCard ==
    << It(<<"4", "5", "3", "2", "0", "1", "5", "1", "1", "2", "8", "3", "0", "3", "6", "6">>, 0, 20),
       It(<<"4", "5", "3", "2", "-", "0", "1", "5", "1", "-", "1", "2", "8", "3", "-", "0", "3", "6", "7">>, 0, 40) >>

\* an e-mail address and a phone number
pgContact ==
    << It(<<"a", "@", "b", ".", "c", "o">>, 0, 20),
       It(<<"(", "5", "5", "5", ")", " ", "1", "2", "3", "-", "4", "5", "6", "7">>, 0, 40) >>

\* two dates, the second one across a line break
pgDate ==
    << It(<<"1", "/", "2", "/", "2", "4", " ", "J", "a", "n", " ", "5", ",">>, 0, 20),
       It(<<"2", "0", "2", "4">>, 0, 40) >>

\* text with parentheses in both cases of the letters
pgParens ==
    << It(<<"a", "(", "b", " ", "A", "(", "B", " ", "(", "(", "(">>, 0, 20) >>

\* letters and regex metacharacters
pgLetters ==
    << It(<<"a", "a", "b">>, 0, 20),
       It(<<"b", ")", " ", "*", "a", " ", "[", "a">>, 0, 40) >>

PagePool ==
    { pgNoItems, pgBlank, pgSsn, pgSsnSplit, pgCard,
      pgContact, pgDate, pgParens, pgLetters }

\* custom patterns: six that are no regular expression (unbalanced
\* parentheses, nothing to repeat, open class, backslash at the end), four
\* that are, one of them matching the separators and one the empty string;
\* <<>> is no pattern given
CustomPool ==
    { <<>>,
      <<"a", "(", "b">>,
      <<"(", "(">>,
      <<"b", ")">>,
      <<"*", "a">>,
      <<"[", "a">>,
      <<"a", "\\">>,
      <<"\\", "s">>,
      <<"a", "*">>,
      <<"a", "|", "b">>,
      <<"\\", "(">> }

\* "zip" is no key of REDACTION_PATTERNS
Selections ==
    { <<>>, <<"ssn">>, <<"zip">>,
      <<"ssn", "creditCard", "email", "phone", "date">>, <<"phone", "zip", "ssn">>,
      <<"custom">>, <<"date", "custom">> }

Range(f) == {f[x] : x \in DOMAIN f}

Documents ==
    {[isNull |-> TRUE, pages |-> <<>>]}
    \cup {[isNull |-> FALSE, pages |-> ps] : ps \in SeqsUpTo(PagePool, MaxPages) \ {<<>>}}

InitSearch ==
    /\ pdfDoc \in Documents
    /\ patternNames \in Selections
    /\ customPattern \in (IF "custom" \in Range(patternNames) THEN CustomPool ELSE {<<>>})
    /\ pageNum = 0
    /\ results = <<>>
    /\ lastIndex = [n \in BuiltIn |-> 0]
    /\ spc = "idle"
    /\ IxIdle
    /\ ValIdle
    /\ DocIdle
    /\ OtIdle
    /\ S2Idle
    /\ DhIdle
    /\ AnIdle /\ RgIdle

SpecSearch == InitSearch /\ [][NextSearch]_vars

(***************************************************************************)
(* Two searchPatterns calls with the same document and patterns, made one  *)
(* after the other before the first has finished.  Each call runs from one *)
(* await to the next; the built-in regex objects, and so lastIndex, are    *)
(* shared.  A call whose while loop does not end keeps the thread: no      *)
(* other step follows.                                                     *)
(***************************************************************************)
FirstCall ==
    /\ spc2 # "hung"
    /\ (SearchNoDoc \/ SearchStart \/ SearchPage)

SearchNoDoc2 ==
    /\ spc # "hung"
    /\ spc2 = "idle"
    /\ pdfDoc.isNull
    /\ results2' = <<>>
    /\ spc2' = "returned"
    /\ UNCHANGED pageNum2
    /\ UNCHANGED srVars
    /\ UNCHANGED notSearch

SearchStart2 ==
    /\ spc # "hung"
    /\ spc2 = "idle"
    /\ ~pdfDoc.isNull
    /\ results2' = <<>>
    /\ pageNum2' = 1
    /\ spc2' = IF 1 <= Len(pdfDoc.pages) THEN "page" ELSE "returned"
    /\ UNCHANGED srVars
    /\ UNCHANGED notSearch

SearchPage2 ==
    /\ spc # "hung"
    /\ spc2 = "page"
    /\ \E b \in {buildCharMap(pdfDoc.pages[pageNum2])} :
       \E st \in {ScanPage(patternNames, customPattern, pageNum2, b.fullText, b.charMap, 1,
                            [status |-> "ok", results |-> results2, lastIndex |-> lastIndex])} :
          /\ results2' = st.results
          /\ lastIndex' = st.lastIndex
          /\ IF st.status = "ok"
             THEN /\ pageNum2' = pageNum2 + 1
                  /\ spc2' = IF pageNum2 + 1 <= Len(pdfDoc.pages) THEN "page" ELSE "returned"
             ELSE /\ pageNum2' = pageNum2
                  /\ spc2' = st.status
    /\ UNCHANGED <<pdfDoc, patternNames, customPattern, pageNum, results, spc>>
    /\ UNCHANGED notSearch

NextSearch2 == FirstCall \/ SearchNoDoc2 \/ SearchStart2 \/ SearchPage2

\* documents of pages with matches of several built-in patterns
Documents2 ==
    {[isNull |-> TRUE, pages |-> <<>>]}
    \cup {[isNull |-> FALSE, pages |-> ps] :
             ps \in SeqsUpTo({pgSsn, pgContact, pgLetters}, MaxPages) \ {<<>>}}

Selections2 ==
    { <<"ssn">>, <<"ssn", "email", "phone">>, <<"email", "custom">>, <<"custom", "ssn">> }

\* a custom pattern that is no regular expression, one that matches the
\* empty string, and one that matches letters
CustomPool2 == { <<"[", "a">>, <<"a", "*">>, <<"a", "|", "b">> }

InitSearch2 ==
    /\ pdfDoc \in Documents2
    /\ patternNames \in Selections2
    /\ customPattern \in (IF "custom" \in Range(patternNames) THEN CustomPool2 ELSE {<<>>})
    /\ pageNum = 0 /\ results = <<>> /\ spc = "idle"
    /\ pageNum2 = 0 /\ results2 = <<>> /\ spc2 = "idle"
    /\ lastIndex = [n \in BuiltIn |-> 0]
    /\ IxIdle /\ ValIdle /\ DocIdle /\ OtIdle /\ DhIdle /\ AnIdle /\ RgIdle

SpecSearch2 == InitSearch2 /\ [][NextSearch2]_vars

(***************************************************************************)
(* Properties of the search                                                *)
(***************************************************************************)
\* the entries of the result list for page p and the pattern name, in order
ResultsOf(p, name) == SelectSeq(results, LAMBDA r : r.pageNum = p /\ r.pattern = name)

\* the pages whose iteration of the page loop has finished
ScannedPages ==
    IF spc \in {"page", "returned"} /\ ~pdfDoc.isNull THEN 1..(pageNum - 1) ELSE {}

PageText(p) == buildCharMap(pdfDoc.pages[p]).fullText

Selected(name) == \E k \in 1..Len(patternNames) : patternNames[k] = name

HasPage(pg) == \E p \in 1..Len(pdfDoc.pages) : pdfDoc.pages[p] = pg

\* C4: every entry of the result list for a built-in pattern carries a text
\* that the pattern's validator accepts.
C4_OnlyValidatedMatches ==
    \A k \in 1..Len(results) :
        results[k].pattern \in BuiltIn =>
            CASE results[k].pattern = "ssn" -> ssnValidate(results[k].text)
              [] results[k].pattern = "creditCard" -> creditCardValidate(results[k].text)
              [] results[k].pattern = "phone" -> phoneValidate(results[k].text)
              [] OTHER -> TRUE

\* a finished search for SSNs and card numbers over the page with a valid
\* and a rejected SSN: the valid one is reported
C4_Witness ==
    /\ spc = "returned"
    /\ Selected("ssn") /\ Selected("creditCard")
    /\ HasPage(pgSsn) /\ HasPage(pgCard)
    /\ \E k \in 1..Len(results) : results[k].pattern = "ssn"
    /\ \E k \in 1..Len(results) : results[k].pattern = "creditCard"

EqualsIgnoringCase(a, b) ==
    /\ Len(a) = Len(b)
    /\ \A i \in 1..Len(a) : a[i] = b[i] \/ SwapCase(a[i]) = b[i]

\* the offsets at which lit occurs in text, overlapping occurrences included
Occurrences(text, lit) ==
    {i \in 0..(Len(text) - Len(lit)) : SubSeq(text, i + 1, i + Len(lit)) = lit}

\* the offsets at which lit occurs in text without regard to letter case,
\* taken from the left, each occurrence starting at or after the end of the
\* one before
RECURSIVE LeftmostOccurrences(_, _, _)
LeftmostOccurrences(text, lit, from) ==
    LET hits == {i \in from..(Len(text) - Len(lit)) :
                    EqualsIgnoringCase(SubSeq(text, i + 1, i + Len(lit)), lit)}
        first == CHOOSE i \in hits : \A j \in hits : i <= j
    IN IF hits = {} THEN <<>>
       ELSE <<first>> \o LeftmostOccurrences(text, lit, first + Len(lit))

\* the custom pattern is selected, given, and no regular expression
InvalidCustom ==
    /\ Selected("custom")
    /\ customPattern # <<>>
    /\ ~RegExpCompile(customPattern).ok

\* C5 as claimed: for a custom pattern that is no regular expression the
\* search does not throw and reports, on every page, exactly the offsets at
\* which that exact string occurs in the page text.
C5_ExactOccurrences ==
    InvalidCustom =>
        /\ spc # "threw"
        /\ \A p \in ScannedPages :
             LET rs == ResultsOf(p, "custom")
             IN /\ {rs[k].index : k \in 1..Len(rs)} = Occurrences(PageText(p), customPattern)
                /\ \A k \in 1..Len(rs) : rs[k].text = customPattern

\* C5 as amended: for a custom pattern that is no regular expression the
\* search does not throw and does not hang, and reports, on every page, the
\* occurrences of the string as a literal (every metacharacter escaped),
\* compared without regard to letter case and taken from the left without
\* overlap.
C5_LiteralFallback ==
    InvalidCustom =>
        /\ spc \notin {"threw", "hung"}
        /\ \A p \in ScannedPages :
             LET rs == ResultsOf(p, "custom")
             IN /\ [k \in 1..Len(rs) |-> rs[k].index]
                     = LeftmostOccurrences(PageText(p), customPattern, 0)
                /\ \A k \in 1..Len(rs) :
                     /\ rs[k].end = rs[k].index + Len(customPattern)
                     /\ EqualsIgnoringCase(rs[k].text, customPattern)

\* a finished search for the unbalanced pattern "a(b" that reported it twice
\* on one page
C5_Witness ==
    /\ spc = "returned"
    /\ InvalidCustom
    /\ customPattern = <<"a", "(", "b">>
    /\ \E p \in ScannedPages : Len(ResultsOf(p, "custom")) = 2

\* every item of the page has an empty str (or the page has no item)
EmptyPage(p) == \A k \in 1..Len(pdfDoc.pages[p]) : pdfDoc.pages[p][k].str = <<>>

\* C8: without a document the search returns the empty list and raises no
\* error; a page whose text content is empty or has no items contributes no
\* entry, whatever the patterns.
C8_EmptyPagesNoMatches ==
    /\ (pdfDoc.isNull /\ spc # "idle") => (spc = "returned" /\ results = <<>>)
    /\ ~pdfDoc.isNull =>
          \A k \in 1..Len(results) : ~EmptyPage(results[k].pageNum)

\* a finished search with a pattern that matches the separators, over a page
\* of empty items followed by a page that has matches
C8_Witness ==
    /\ spc = "returned"
    /\ customPattern = <<"\\", "s">>
    /\ Len(pdfDoc.pages) = 2
    /\ pdfDoc.pages[1] = pgBlank
    /\ results # <<>>

\* C9: the entries of one pattern on one page are in text order and their
\* spans do not overlap: each starts at or after the end of the one before.
C9_NoOverlap ==
    \A i \in 1..Len(results) : \A j \in (i + 1)..Len(results) :
        (results[i].pageNum = results[j].pageNum /\ results[i].pattern = results[j].pattern)
            => results[i].end <= results[j].index

\* two entries of one pattern on one page, the second starting right where
\* the first ends
C9_Witness ==
    \E i \in 1..Len(results) : \E j \in (i + 1)..Len(results) :
        /\ results[i].pageNum = results[j].pageNum
        /\ results[i].pattern = results[j].pattern
        /\ results[i].end = results[j].index

(***************************************************************************)
(* The open document and the OCR result store                              *)
(*                                                                         *)
(* A handler runs to its next await in one step.  loadDocument, the script *)
(* load, createWorker, the page render and worker.recognize are the awaits *)
(* in which other handlers run.  One openPDF or reloadAfterEdit is in      *)
(* flight at a time (the loading overlay covers the page), and the run     *)
(* button offers the scopes "current" and "all".  The runOCR calls of a    *)
(* behaviour are numbered in the order they are made.                      *)
(***************************************************************************)
\* ocr.js clearOCRResults: the value ocrResults is given
clearOCRResults == <<>>

hasOCRResults(p) == p \in DOMAIN ocrResults

\* faulty variant: an entry the page already has is patched, its pageHeight
\* is kept
StorePatch(res, p, entry) ==
    [q \in DOMAIN res \cup {p} |->
        IF q # p THEN res[q]
        ELSE IF p \in DOMAIN res THEN [entry EXCEPT !.pageHeight = res[p].pageHeight]
             ELSE entry]

\* ocrResults[pageNum] = {...}: gen and pageNum stand for the words, lines,
\* text and page height recognized from page pageNum of the content gen
Store(res, p, entry) == [q \in DOMAIN res \cup {p} |-> IF q = p THEN entry ELSE res[q]]

\* openPDF up to its await of loadDocument
OpenPDF ==
    /\ loader.pc = "idle"
    /\ contents < MaxContents
    /\ \E n \in 1..MaxPages :
          loader' = [pc |-> "open", doc |-> [gen |-> contents + 1, numPages |-> n]]
    /\ contents' = contents + 1
    /\ ocrResults' = clearOCRResults
    /\ runs' = [r \in Runs |->
                 [runs[r] EXCEPT !.alone = FALSE,
                                 !.reset = @ \/ runs[r].pc \notin {"none", "ended", "rejected"}]]
    /\ UNCHANGED <<State, tesseractLoaded, worker, created, runDisabled>>
    /\ UNCHANGED notDoc

\* openPDF after loadDocument
OpenPDFLoaded ==
    /\ loader.pc = "open"
    /\ State' = [pdfDoc |-> loader.doc, totalPages |-> loader.doc.numPages, currentPage |-> 1]
    /\ loader' = NoLoad
    /\ UNCHANGED <<contents, ocrResults, tesseractLoaded, worker, created, runs, runDisabled>>
    /\ UNCHANGED notDoc

\* the page count of the bytes a page edit produces
EditedPages(action, n) ==
    CASE action \in {"insert-blank", "duplicate"} -> n + 1
      [] action = "delete" -> n - 1
      [] OTHER -> n

\* State.currentPage as the page context menu leaves it before the reload
EditedCurrent(action, pn, currentPage) ==
    CASE action \in {"insert-blank", "duplicate"} -> pn + 1
      [] action = "delete" ->
            IF pn <= currentPage /\ currentPage > 1 THEN currentPage - 1 ELSE currentPage
      [] OTHER -> currentPage

\* the page context menu (insert, duplicate, rotate, delete) and
\* reloadAfterEdit up to its await of loadDocument
EditPage ==
    /\ loader.pc = "idle"
    /\ State.pdfDoc # NoDoc
    /\ contents < MaxContents
    /\ \E action \in {"insert-blank", "duplicate", "rotate-cw", "delete"} :
       \E pn \in 1..State.totalPages :
          /\ action = "delete" => State.totalPages > 1
          /\ EditedPages(action, State.totalPages) <= MaxPages
          /\ loader' = [pc |-> "reload",
                        doc |-> [gen |-> contents + 1,
                                 numPages |-> EditedPages(action, State.totalPages)]]
          /\ State' = [State EXCEPT !.currentPage = EditedCurrent(action, pn, @)]
    /\ contents' = contents + 1
    /\ UNCHANGED <<ocrResults, tesseractLoaded, worker, created, runs, runDisabled>>
    /\ UNCHANGED notDoc

\* reloadAfterEdit after loadDocument
ReloadLoaded ==
    /\ loader.pc = "reload"
    /\ State' = [pdfDoc |-> loader.doc,
                 totalPages |-> loader.doc.numPages,
                 currentPage |-> IF State.currentPage > loader.doc.numPages
                                 THEN loader.doc.numPages ELSE State.currentPage]
    /\ loader' = NoLoad
    /\ UNCHANGED <<contents, ocrResults, tesseractLoaded, worker, created, runs, runDisabled>>
    /\ UNCHANGED notDoc

\* the pages a scope of the OCR dialog selects
ScopePages(scope) ==
    IF scope = "current" THEN <<State.currentPage>> ELSE [k \in 1..State.totalPages |-> k]

\* click on btn-ocr: the dialog opens and the run button is enabled
OcrOpen ==
    /\ State.pdfDoc # NoDoc
    /\ runDisabled' = FALSE
    /\ UNCHANGED <<State, loader, contents, ocrResults, tesseractLoaded, worker, created, runs>>
    /\ UNCHANGED notDoc

\* the calls in flight
Active(run) == run.pc \notin {"none", "ended", "rejected"}

\* runOCR up to its first await that lets other handlers run: the script
\* load unless Tesseract is loaded, createWorker unless there is a worker,
\* else the render of the first page
FirstAwait ==
    IF ~tesseractLoaded THEN "tesseract" ELSE IF worker = 0 THEN "createWorker" ELSE "render"

\* click on btn-ocr-run, and runOCR up to its first await
OcrRun ==
    /\ ~runDisabled
    /\ State.pdfDoc # NoDoc
    /\ \E r \in Runs : \E scope \in {"current", "all"} :
          /\ runs[r] = NoRun
          /\ \A q \in Runs : q < r => runs[q] # NoRun
          /\ runs' = [q \in Runs |->
                        IF q = r
                        THEN [NoRun EXCEPT !.pc = FirstAwait,
                                           !.pdfDoc = State.pdfDoc,
                                           !.pageNumbers = ScopePages(scope),
                                           !.before = DOMAIN ocrResults,
                                           !.alone = \A o \in Runs : ~Active(runs[o])]
                        ELSE [runs[q] EXCEPT !.alone = FALSE]]
    /\ runDisabled' = TRUE
    /\ UNCHANGED <<State, loader, contents, ocrResults, tesseractLoaded, worker, created>>
    /\ UNCHANGED notDoc

\* runOCR after ensureTesseract: the worker is created unless there is one
TesseractReady ==
    /\ \E r \in Runs :
          /\ runs[r].pc = "tesseract"
          /\ runs' = [runs EXCEPT ![r].pc = IF worker = 0 THEN "createWorker" ELSE "render"]
    /\ tesseractLoaded' = TRUE
    /\ UNCHANGED <<State, loader, contents, ocrResults, worker, created, runDisabled>>
    /\ UNCHANGED notDoc

\* runOCR after createWorker
WorkerCreated ==
    /\ \E r \in Runs :
          /\ runs[r].pc = "createWorker"
          /\ runs' = [runs EXCEPT ![r].pc = "render"]
    /\ worker' = created + 1
    /\ created' = created + 1
    /\ UNCHANGED <<State, loader, contents, ocrResults, tesseractLoaded, runDisabled>>
    /\ UNCHANGED notDoc

\* the page the run is at
RunPage(run) == run.pageNumbers[run.i + 1]

\* runOCR after renderPageToCanvas; getPage rejects a page the document
\* given to the run does not have, which ends the handler in its catch
PageRendered ==
    /\ \E r \in Runs :
          /\ runs[r].pc = "render"
          /\ IF RunPage(runs[r]) \in 1..runs[r].pdfDoc.numPages
             THEN /\ runs' = [runs EXCEPT ![r].pc = "recognize",
                                          ![r].canvas = <<r, runs[r].i>>]
                  /\ UNCHANGED runDisabled
             ELSE /\ runs' = [runs EXCEPT ![r] = RejectedRun(runs[r], "page")]
                  /\ runDisabled' = FALSE
    /\ UNCHANGED <<State, loader, contents, ocrResults, tesseractLoaded, worker, created>>
    /\ UNCHANGED notDoc

\* The entry built from the recognition of the run's canvas: words, lines
\* and fullText come from result.data, pageHeight from the render's native
\* viewport.  Each field carries the identity of the canvas it comes from;
\* gen is the content of the document given to the run.
NewEntry(run) ==
    [gen |-> run.pdfDoc.gen, pageNum |-> RunPage(run),
     words |-> run.canvas, lines |-> run.canvas, fullText |-> run.canvas,
     pageHeight |-> run.canvas]

\* runOCR after worker.recognize: the page's entry is stored; after the
\* last page the handler goes on to its await of renderCurrentPage
PageRecognized ==
    /\ \E r \in Runs :
          /\ runs[r].pc = "recognize"
          /\ ocrResults' = Store(ocrResults, RunPage(runs[r]), NewEntry(runs[r]))
          /\ runs' = [runs EXCEPT ![r].i = @ + 1,
                                  ![r].canvas = <<>>,
                                  ![r].pc = IF runs[r].i + 1 < Len(runs[r].pageNumbers)
                                            THEN "render" ELSE "rerender"]
    /\ UNCHANGED <<State, loader, contents, tesseractLoaded, worker, created, runDisabled>>
    /\ UNCHANGED notDoc

\* the run handler's finally, after renderCurrentPage
RunFinished ==
    /\ \E r \in Runs :
          /\ runs[r].pc = "rerender"
          /\ runs' = [runs EXCEPT ![r] = EndedRun]
    /\ runDisabled' = FALSE
    /\ UNCHANGED <<State, loader, contents, ocrResults, tesseractLoaded, worker, created>>
    /\ UNCHANGED notDoc

\* the error an await of the run rejects with
ErrorAt(pc) == IF pc \in {"tesseract", "createWorker"} THEN "engine" ELSE "page"

\* faulty variant: the failing run takes back the entries it has stored
RunFailsRollsBack ==
    /\ \E r \in Runs :
          /\ runs[r].pc \in {"tesseract", "createWorker", "recognize"}
          /\ runs' = [runs EXCEPT ![r] = RejectedRun(runs[r], ErrorAt(runs[r].pc))]
          /\ ocrResults' = [p \in {q \in DOMAIN ocrResults :
                                     ocrResults[q].words[1] # r} |-> ocrResults[p]]
    /\ runDisabled' = FALSE
    /\ UNCHANGED <<State, loader, contents, tesseractLoaded, worker, created>>
    /\ UNCHANGED notDoc

\* faulty variant: the error is swallowed, the handler ends as after a run
\* that resolved
RunFailsResolves ==
    /\ \E r \in Runs :
          /\ runs[r].pc \in {"tesseract", "createWorker", "recognize"}
          /\ runs' = [runs EXCEPT ![r] = EndedRun]
    /\ runDisabled' = FALSE
    /\ UNCHANGED <<State, loader, contents, ocrResults, tesseractLoaded, worker, created>>
    /\ UNCHANGED notDoc

\* an await of the run rejects (script load, createWorker, recognize):
\* runOCR rejects, and the handler's catch and finally run
RunFails ==
    /\ \E r \in Runs :
          /\ runs[r].pc \in {"tesseract", "createWorker", "recognize"}
          /\ runs' = [runs EXCEPT ![r] = RejectedRun(runs[r], ErrorAt(runs[r].pc))]
    /\ runDisabled' = FALSE
    /\ UNCHANGED <<State, loader, contents, ocrResults, tesseractLoaded, worker, created>>
    /\ UNCHANGED notDoc

NextDoc ==
    \/ OpenPDF \/ OpenPDFLoaded \/ EditPage \/ ReloadLoaded
    \/ OcrOpen \/ OcrRun
    \/ TesseractReady \/ WorkerCreated \/ PageRendered \/ PageRecognized
    \/ RunFinished \/ RunFails

InitDoc == DocIdle /\ IxIdle /\ ValIdle /\ SrIdle /\ OtIdle /\ S2Idle /\ DhIdle /\ AnIdle /\ RgIdle

SpecDoc == InitDoc /\ [][NextDoc]_vars

(***************************************************************************)
(* Properties of the OCR result store                                      *)
(***************************************************************************)
\* C10: once a document is loaded, or reloaded after an edit, the store
\* holds no entry produced from another content than the loaded one:
\* hasOCRResults(p) holds only for pages recognized from the loaded content.
C10_NoStaleEntries ==
    loader.pc = "idle" =>
        \A p \in 1..MaxPages : hasOCRResults(p) => ocrResults[p].gen = State.pdfDoc.gen

\* C11: pages are recognized one at a time: no two runOCR calls have a
\* worker.recognize call pending for different pages at the same moment.
C11_OneRecognitionAtATime ==
    \A r \in Runs : \A q \in Runs :
        (r # q /\ runs[r].pc = "recognize" /\ runs[q].pc = "recognize")
            => RunPage(runs[r]) = RunPage(runs[q])

\* an entry all of whose parts come from one recognition of page p
Complete(e, p) ==
    /\ e.pageNum = p
    /\ e.words # <<>>
    /\ e.lines = e.words /\ e.fullText = e.words /\ e.pageHeight = e.words

\* C12: at every moment of a run or re-run every stored entry is complete:
\* words, lines, fullText and pageHeight of the entry of page p come from
\* one and the same recognition of page p; no reader can see a mixed entry.
C12_EntriesComplete ==
    \A p \in DOMAIN ocrResults : Complete(ocrResults[p], p)

\* a re-run has replaced the entry a page had when the run began
C12_Witness ==
    \E r \in Runs : \E p \in DOMAIN ocrResults :
        /\ runs[r].pc = "rerender"
        /\ p \in runs[r].before
        /\ ocrResults[p].words[1] = r

\* the run r ends in this step because one of its awaits rejects
Fails(r) == Active(runs[r]) /\ runs'[r].pc = "rejected"

\* after the step the pages before the one the run r was at have complete
\* entries, and the pages from it on that had none before the run have none
PartialResultsKept(r) ==
    /\ \A k \in 1..runs[r].i :
          /\ runs[r].pageNumbers[k] \in DOMAIN ocrResults'
          /\ Complete(ocrResults'[runs[r].pageNumbers[k]], runs[r].pageNumbers[k])
    /\ \A k \in (runs[r].i + 1)..Len(runs[r].pageNumbers) :
          runs[r].pageNumbers[k] \notin runs[r].before
              => runs[r].pageNumbers[k] \notin DOMAIN ocrResults'

C16_EngineFailureRejects ==
    [][\A r \in Runs :
          (runs[r].pc \in {"tesseract", "createWorker"} /\ ~Active(runs'[r]))
              => /\ runs'[r].pc = "rejected"
                 /\ runs'[r].error = "engine"
                 /\ ocrResults' = ocrResults
                 /\ \A p \in DOMAIN ocrResults' : ocrResults'[p].words[1] # r]_vars

\* a run has been rejected for the engine while the store holds the
\* results of an earlier run
C16_Witness ==
    \E r \in Runs :
        /\ runs[r].pc = "rejected" /\ runs[r].error = "engine"
        /\ ocrResults # <<>>

(***************************************************************************)
(* JavaScript number arithmetic (IEEE 754 doubles)                         *)
(*                                                                         *)
(* A natural number below 2^72 is a tuple of six limbs of twelve bits, the *)
(* least significant first.  A double is [m, e] with the value m * 2^e,    *)
(* where m is zero (and e = 0) or has exactly 53 bits.  Division and       *)
(* subtraction round to nearest, ties to even, as the operators / and -    *)
(* do.  The numbers of this module are non-negative and far from the       *)
(* limits of the exponent.                                                 *)
(***************************************************************************)
LimbBits == 12

NumLimbs == 6

MantissaBits == 53

Limbs == 1..NumLimbs

Pow2(k) == 2 ^ k

LimbBase == Pow2(LimbBits)

BnZero == [i \in Limbs |-> 0]

\* the number n < 2^31
BnFromInt(n) ==
    [i \in Limbs |->
        CASE i = 1 -> n % LimbBase
          [] i = 2 -> (n \div LimbBase) % LimbBase
          [] i = 3 -> n \div (LimbBase * LimbBase)
          [] OTHER -> 0]

Limb(a, i) == IF i \in Limbs THEN a[i] ELSE 0

\* the highest limb below limb i in which a and b differ, 0 if there is none
BnTopDiff(a, b, i) ==
    IF \A j \in 1..(i - 1) : a[j] = b[j]
    THEN 0
    ELSE CHOOSE j \in 1..(i - 1) : a[j] # b[j] /\ \A k \in (j + 1)..(i - 1) : a[k] = b[k]

LimbLess(a, b, j) == j # 0 /\ a[j] < b[j]

\* a < b on the limbs below limb i
BnLessBelow(a, b, i) == LimbLess(a, b, BnTopDiff(a, b, i))

BnLess(a, b) == BnLessBelow(a, b, NumLimbs + 1)

\* a - b for a >= b
BnSub(a, b) ==
    [i \in Limbs |->
        (a[i] - b[i] - (IF BnLessBelow(a, b, i) THEN 1 ELSE 0) + LimbBase) % LimbBase]

\* |a - b|
BnDist(a, b) == IF BnLess(a, b) THEN BnSub(b, a) ELSE BnSub(a, b)

\* a + 1
BnInc(a) ==
    [i \in Limbs |->
        IF \A j \in 1..(i - 1) : a[j] = LimbBase - 1 THEN (a[i] + 1) % LimbBase ELSE a[i]]

RECURSIVE MulLimbs(_, _, _, _)
MulLimbs(a, c, i, carry) ==
    IF i > NumLimbs THEN <<>>
    ELSE <<(a[i] * c + carry) % LimbBase>>
             \o MulLimbs(a, c, i + 1, (a[i] * c + carry) \div LimbBase)

\* a * c for c < 2^12
BnMul(a, c) == MulLimbs(a, c, 1, 0)

\* bit k of a, bit 0 the least significant
BnBit(a, k) == (a[(k \div LimbBits) + 1] \div Pow2(k % LimbBits)) % 2

\* the number of bits of n < 2^12
IntLen(n) ==
    IF n = 0 THEN 0 ELSE 1 + (CHOOSE k \in 0..LimbBits : Pow2(k) <= n /\ n < Pow2(k + 1))

TopLimb(a) ==
    IF a = BnZero THEN 0
    ELSE CHOOSE i \in Limbs : a[i] # 0 /\ \A j \in Limbs : j > i => a[j] = 0

LenAt(a, i) == IF i = 0 THEN 0 ELSE (i - 1) * LimbBits + IntLen(a[i])

\* the number of bits of a
BnLen(a) == LenAt(a, TopLimb(a))

ShrLimbs(a, q, s) ==
    [i \in Limbs |->
        (Limb(a, i + q) \div Pow2(s)) + (Limb(a, i + q + 1) % Pow2(s)) * Pow2(LimbBits - s)]

\* a \div 2^k
BnShr(a, k) == ShrLimbs(a, k \div LimbBits, k % LimbBits)

ShlLimbs(a, q, s) ==
    [i \in Limbs |->
        (Limb(a, i - q) % Pow2(LimbBits - s)) * Pow2(s)
            + (Limb(a, i - q - 1) \div Pow2(LimbBits - s))]

\* a * 2^k modulo 2^72
BnShl(a, k) == ShlLimbs(a, k \div LimbBits, k % LimbBits)

\* the double 0
FZero == [m |-> BnZero, e |-> 0]

\* m0 * 2^e for m0 of 53 bits, or of 54 after the carry of a round-up
Renormalized(m0, e) ==
    IF BnLen(m0) > MantissaBits THEN [m |-> BnShr(m0, 1), e |-> e + 1] ELSE [m |-> m0, e |-> e]

\* d * 2^e with the k lowest bits of d rounded off, to nearest and ties to
\* even; m0 is d without these bits, sticky tells of a non-zero part below d
RoundedOff(d, e, k, sticky, m0) ==
    IF BnBit(d, k - 1) = 1
       /\ (\/ sticky
           \/ BnBit(m0, 0) = 1
           \/ (k > 1 /\ BnShl(d, NumLimbs * LimbBits - (k - 1)) # BnZero))
    THEN Renormalized(BnInc(m0), e + k)
    ELSE [m |-> m0, e |-> e + k]

\* the same for d of len bits
RoundedAt(d, e, sticky, len) ==
    IF len = 0 THEN FZero
    ELSE IF len <= MantissaBits
         THEN [m |-> BnShl(d, MantissaBits - len), e |-> e - (MantissaBits - len)]
         ELSE RoundedOff(d, e, len - MantissaBits, sticky, BnShr(d, len - MantissaBits))

\* the double nearest to d * 2^e (plus a non-zero part below d if sticky)
Rounded(d, e, sticky) == RoundedAt(d, e, sticky, BnLen(d))

\* One step of the long division by d: the remainder r and the quotient q
\* after the next quotient bit, with n more bits to come.
DivBit(r2, q2, d, n) ==
    IF BnLess(r2, d) THEN [r |-> r2, q |-> q2, n |-> n]
    ELSE [r |-> BnSub(r2, d), q |-> BnInc(q2), n |-> n]

RECURSIVE DivLoop(_, _)
\* the remaining quotient bits of the division by d, from the state st
DivLoop(st, d) ==
    IF st.n = 0 THEN st
    ELSE DivLoop(DivBit(BnShl(st.r, 1), BnShl(st.q, 1), d, st.n - 1), d)

DivRounded(st, e) == Rounded(st.q, e, st.r # BnZero)

\* the double nearest to (n / d) * 2^e for n and d of the same number of
\* bits: the integer bit, 55 more quotient bits, the remainder as sticky
DivAligned(n, d, e) ==
    DivRounded(DivLoop(DivBit(n, BnZero, d, MantissaBits + 2), d), e - (MantissaBits + 2))

DivLens(n, d, e, ln, ld) ==
    IF ln <= ld THEN DivAligned(BnShl(n, ld - ln), d, e - (ld - ln))
    ELSE DivAligned(n, BnShl(d, ln - ld), e + (ln - ld))

\* the double nearest to (n / d) * 2^e, d # 0
BnDiv(n, d, e) == IF n = BnZero THEN FZero ELSE DivLens(n, d, e, BnLen(n), BnLen(d))

\* the double of the integer n, 0 <= n < 2^31
FInt(n) == Rounded(BnFromInt(n), 0, FALSE)

\* x / y
FDiv(x, y) == BnDiv(x.m, y.m, x.e - y.e)

SubAligned(x, y, e) == Rounded(BnSub(BnShl(x.m, x.e - e), BnShl(y.m, y.e - e)), e, FALSE)

\* x - y for x >= y >= 0
FSub(x, y) ==
    IF y = FZero THEN x ELSE SubAligned(x, y, IF x.e <= y.e THEN x.e ELSE y.e)

(***************************************************************************)
(* runOCR's result parsing and getOCRTextEntries (ocr.js)                  *)
(*                                                                         *)
(* A property that may be missing is a sequence of length 0 (undefined)    *)
(* or 1 (the value).  Raster coordinates are integers; stored coordinates  *)
(* are doubles.                                                            *)
(***************************************************************************)
OCR_DPI == 300

PDF_DPI == 72

SCALE_FACTOR == FDiv(FInt(OCR_DPI), FInt(PDF_DPI))

\* faulty variant: the raster coordinate stored as it is
ToPdfUnscaled(c) == FInt(c)

\* c / SCALE_FACTOR for a raster coordinate c
ToPdf(c) == FDiv(FInt(c), SCALE_FACTOR)

pdfBbox(bbox) ==
    [x0 |-> ToPdf(bbox.x0), y0 |-> ToPdf(bbox.y0),
     x1 |-> ToPdf(bbox.x1), y1 |-> ToPdf(bbox.y1)]

RECURSIVE Join(_, _)
\* ss.join(sep)
Join(ss, sep) ==
    IF ss = <<>> THEN <<>>
    ELSE IF Len(ss) = 1 THEN ss[1]
    ELSE ss[1] \o sep \o Join(Tail(ss), sep)

RECURSIVE trimStart(_)
trimStart(s) ==
    IF s # <<>> /\ Head(s) \in WhiteSpace THEN trimStart(Tail(s)) ELSE s

RECURSIVE trimEnd(_)
trimEnd(s) ==
    IF s # <<>> /\ s[Len(s)] \in WhiteSpace THEN trimEnd(SubSeq(s, 1, Len(s) - 1)) ELSE s

\* s.trim()
trim(s) == trimEnd(trimStart(s))

\* the lines the loops reach: a block without paragraphs and a paragraph
\* without lines are skipped
ParaLines(para) == IF para.lines = <<>> THEN <<>> ELSE para.lines[1]

BlockLines(block) ==
    IF block.paragraphs = <<>> THEN <<>>
    ELSE Concat([i \in 1..Len(block.paragraphs[1]) |-> ParaLines(block.paragraphs[1][i])])

ReachedLines(blocks) == Concat([i \in 1..Len(blocks) |-> BlockLines(blocks[i])])

\* a line without words is skipped before anything is pushed for it
WordLines(blocks) == SelectSeq(ReachedLines(blocks), LAMBDA line : line.words # <<>>)

\* word.bbox.x0 and line.bbox.x0 throw a TypeError when bbox is undefined
ParseThrows(data) ==
    /\ data.blocks # <<>>
    /\ \E i \in DOMAIN WordLines(data.blocks[1]) :
          \/ WordLines(data.blocks[1])[i].bbox = <<>>
          \/ \E j \in DOMAIN WordLines(data.blocks[1])[i].words[1] :
                WordLines(data.blocks[1])[i].words[1][j].bbox = <<>>

StoredWord(word) ==
    [text |-> word.text, bbox |-> pdfBbox(word.bbox[1]), confidence |-> word.confidence]

lineWords(line) == [j \in 1..Len(line.words[1]) |-> line.words[1][j].text]

lineText(line) == Join(lineWords(line), <<" ">>)

StoredLine(line) == [text |-> lineText(line), bbox |-> pdfBbox(line.bbox[1])]

ParsedWords(ls) ==
    Concat([i \in 1..Len(ls) |->
                [j \in 1..Len(ls[i].words[1]) |-> StoredWord(ls[i].words[1][j])]])

ParsedLines(ls) == [i \in 1..Len(ls) |-> StoredLine(ls[i])]

ParsedText(ls) == Concat([i \in 1..Len(ls) |-> lineText(ls[i]) \o <<"\n">>])

\* faulty variant: String(result.data.text)
TextAsString(text) ==
    IF text = <<>> THEN <<"u", "n", "d", "e", "f", "i", "n", "e", "d">> ELSE text[1]

\* result.data.text || ''
TextOrEmpty(text) == IF text = <<>> THEN <<>> ELSE text[1]

\* the entry runOCR stores for a page from the recognition's result.data
PageEntry(data, pageHeight) ==
    IF data.blocks # <<>>
    THEN [words |-> ParsedWords(WordLines(data.blocks[1])),
          lines |-> ParsedLines(WordLines(data.blocks[1])),
          fullText |-> trim(ParsedText(WordLines(data.blocks[1]))),
          pageHeight |-> pageHeight]
    ELSE [words |-> <<>>, lines |-> <<>>,
          fullText |-> trim(TextOrEmpty(data.text)),
          pageHeight |-> pageHeight]

RECURSIVE KeysInOrder(_)
\* Object.entries lists integer keys in ascending order
KeysInOrder(S) ==
    IF S = {} THEN <<>>
    ELSE <<CHOOSE p \in S : \A q \in S : p <= q>>
             \o KeysInOrder(S \ {CHOOSE p \in S : \A q \in S : p <= q})

\* faulty variant: the last word gets a trailing space too
wordStrSpaced(words, i) == words[i].text \o <<" ">>

\* const str = i < result.words.length - 1 ? word.text + ' ' : word.text
wordStr(words, i) == IF i < Len(words) THEN words[i].text \o <<" ">> ELSE words[i].text

RECURSIVE ocrItems(_, _, _)
\* the items loop of getOCRTextEntries from word i on (1-based)
ocrItems(words, i, offset) ==
    IF i > Len(words) THEN <<>>
    ELSE <<[str |-> wordStr(words, i),
            start |-> offset,
            transform |-> <<1, 0, 0, 1, words[i].bbox.x0, words[i].bbox.y0>>,
            width |-> FSub(words[i].bbox.x1, words[i].bbox.x0),
            height |-> FSub(words[i].bbox.y1, words[i].bbox.y0),
            ocr |-> TRUE]>>
           \o ocrItems(words, i + 1, offset + Len(wordStr(words, i)))

ItemsText(its) == Concat([i \in 1..Len(its) |-> its[i].str])

TextEntry(p, its) == [pageNum |-> p, text |-> ItemsText(its), items |-> its]

\* getOCRTextEntries() over the store res: a page whose fullText is empty
\* is skipped
getOCRTextEntries(res) ==
    Concat([k \in 1..Cardinality(DOMAIN res) |->
               IF res[KeysInOrder(DOMAIN res)[k]].fullText = <<>> THEN <<>>
               ELSE <<TextEntry(KeysInOrder(DOMAIN res)[k],
                                ocrItems(res[KeysInOrder(DOMAIN res)[k]].words, 1, 0))>>])

(***************************************************************************)
(* Recognition results                                                     *)
(***************************************************************************)
\* pairs (c0, c1) of raster coordinates of a box along one axis
Extents == {<<0, 25>>, <<1, 9>>, <<9, 9>>, <<25, 125>>, <<100, 1275>>, <<127, 2550>>}

Bbox(h, v) == [x0 |-> h[1], y0 |-> v[1], x1 |-> h[2], y1 |-> v[2]]

Bboxes == {Bbox(h, v) : h \in Extents, v \in Extents}

Word(t, b) == [text |-> t, bbox |-> b, confidence |-> 90]

Line(ws, b) == [words |-> ws, bbox |-> b]

Para(ls) == [lines |-> ls]

Block(ps) == [paragraphs |-> ps]

WordAb == Word(<<"a", "b">>, <<Bbox(<<25, 125>>, <<0, 25>>)>>)

WordC == Word(<<"c">>, <<Bbox(<<127, 2550>>, <<1, 9>>)>>)

LineBox == <<Bbox(<<25, 125>>, <<0, 25>>)>>

LineTwo == Line(<<<<WordAb, WordC>>>>, <<Bbox(<<25, 125>>, <<0, 25>>)>>)

LineOne == Line(<<<<WordC>>>>, <<Bbox(<<127, 2550>>, <<1, 9>>)>>)

\* lines of one word, the word and the line with the same box
OneWordLines == {Line(<<<<Word(<<"a", "b">>, <<b>>)>>>>, <<b>>) : b \in Bboxes}

\* a line without the words property, with an empty words array, with a
\* word that has no box, and without its own box
OddLines ==
    {Line(<<>>, LineBox), Line(<<<<>>>>, LineBox),
     Line(<<<<WordAb, Word(<<"c">>, <<>>)>>>>, LineBox),
     Line(<<<<WordAb>>>>, <<>>)}

FlatTexts == {<<>>, <<<<>>>>, <<<<"h", "i">>>>, <<<<" ", "h", "i", " ", "x", "\n">>>>, <<<<"\n">>>>}

\* result.data of a recognition: without blocks; with blocks that hold no
\* line; with one line; with several lines, paragraphs and blocks
Datas ==
    {[blocks |-> <<>>, text |-> t] : t \in FlatTexts}
    \cup {[blocks |-> <<bs>>, text |-> t] :
             bs \in {<<>>, <<Block(<<>>)>>, <<Block(<<<<>>>>)>>,
                     <<Block(<<<<Para(<<>>)>>>>)>>,
                     <<Block(<<<<Para(<<<<>>>>)>>>>), Block(<<>>)>>},
             t \in {<<>>, <<<<"h", "i">>>>}}
    \cup {[blocks |-> <<<<Block(<<<<Para(<<<<ln>>>>)>>>>)>>>>, text |-> <<<<"a", "b">>>>] :
             ln \in OneWordLines \cup OddLines \cup {LineTwo}}
    \cup {[blocks |-> <<bs>>, text |-> <<>>] :
             bs \in {<<Block(<<<<Para(<<<<LineTwo, LineOne>>>>)>>>>)>>,
                     <<Block(<<<<Para(<<<<LineOne>>>>), Para(<<>>),
                                 Para(<<<<Line(<<>>, LineBox), LineTwo>>>>)>>>>),
                       Block(<<>>),
                       Block(<<<<Para(<<<<LineOne>>>>)>>>>)>>}}

PageHeights == {792}

(***************************************************************************)
(* One page of a run and the find index entries built from the store       *)
(***************************************************************************)
\* lines 88..139: the page is rendered and recognized; the parse throws, or
\* line 141 stores the page's entry
StorePage ==
    /\ opc = "recognized"
    /\ IF ParseThrows(result.data)
       THEN opc' = "threw" /\ UNCHANGED ocrResults
       ELSE /\ opc' = "stored"
            /\ ocrResults' = Store(ocrResults, ocrPage,
                                   PageEntry(result.data, nativeViewport.height))
    /\ UNCHANGED <<ocrPage, nativeViewport, result, ocrEntries>>
    /\ UNCHANGED <<State, loader, contents, tesseractLoaded, worker, created, runs, runDisabled>>
    /\ UNCHANGED notOt

\* export.js 2133: the handler asks for the entries after the run
BuildEntries ==
    /\ opc = "stored"
    /\ ocrEntries' = getOCRTextEntries(ocrResults)
    /\ opc' = "entries"
    /\ UNCHANGED <<ocrPage, nativeViewport, result>>
    /\ UNCHANGED docVars
    /\ UNCHANGED notOt

NextOcrText == StorePage \/ BuildEntries

InitOcrText ==
    /\ IxIdle /\ ValIdle /\ SrIdle /\ DocIdle /\ S2Idle /\ DhIdle /\ AnIdle /\ RgIdle
    /\ ocrPage \in 1..MaxPages
    /\ nativeViewport \in {[height |-> h] : h \in PageHeights}
    /\ result \in {[data |-> d] : d \in Datas}
    /\ ocrEntries = <<>>
    /\ opc = "recognized"

SpecOcrText == InitOcrText /\ [][NextOcrText]_vars

(***************************************************************************)
(* Properties of the stored page entry and of the find index entries       *)
(***************************************************************************)
\* the entries of getOCRTextEntries for page p
EntriesOf(p) == {i \in DOMAIN ocrEntries : ocrEntries[i].pageNum = p}

\* the recognition has no blocks and a flat text that is not only whitespace
FlatTextOnly(data) == data.blocks = <<>> /\ trim(TextOrEmpty(data.text)) # <<>>

\* C14: for a page recognized without block structure but with a non-empty
\* flat text, getOCRTextEntries returns an entry of the page whose text is
\* the page's flat recognized text.
C14_FlatTextIndexed ==
    (opc = "entries" /\ FlatTextOnly(result.data))
        => \E i \in EntriesOf(ocrPage) :
              ocrEntries[i].text \in {result.data.text[1], trim(result.data.text[1])}

\* no line that the loops reach has a word
NoWords(blocks) ==
    \A i \in DOMAIN ReachedLines(blocks) :
        \/ ReachedLines(blocks)[i].words = <<>>
        \/ /\ ReachedLines(blocks)[i].words = <<<<>>>>
           /\ ReachedLines(blocks)[i].bbox # <<>>

\* an empty result (no blocks and no text) or a malformed one (blocks that
\* lack paragraphs, lines or words)
EmptyOrMalformed(data) ==
    IF data.blocks = <<>> THEN data.text \in {<<>>, <<<<>>>>} ELSE NoWords(data.blocks[1])

RasterWords(data) ==
    Concat([i \in 1..Len(WordLines(data.blocks[1])) |-> WordLines(data.blocks[1])[i].words[1]])

\* the double d is within 2^-20 (less than 1e-6) of c / (300 / 72), the
\* exact quotient: |OCR_DPI * m - PDF_DPI * c * 2^-e| * 2^e < OCR_DPI * 2^-20
\* holds when the left factor has at most -e - 12 bits
NearQuotient(c, d) ==
    IF d = FZero THEN c = 0
    ELSE BnLen(BnDist(BnMul(d.m, OCR_DPI), BnShl(BnFromInt(PDF_DPI * c), 0 - d.e))) + d.e <= 0 - 12

\* C17 as claimed: the stored width and height of every word box equal
\* (x1 - x0) / (300 / 72) and (y1 - y0) / (300 / 72), as the program
\* computes these numbers.
C17_ExactWidth ==
    opc = "stored" =>
        \A j \in DOMAIN ocrResults[ocrPage].words :
            /\ FSub(ocrResults[ocrPage].words[j].bbox.x1, ocrResults[ocrPage].words[j].bbox.x0)
                   = FDiv(FInt(RasterWords(result.data)[j].bbox[1].x1
                                   - RasterWords(result.data)[j].bbox[1].x0), SCALE_FACTOR)
            /\ FSub(ocrResults[ocrPage].words[j].bbox.y1, ocrResults[ocrPage].words[j].bbox.y0)
                   = FDiv(FInt(RasterWords(result.data)[j].bbox[1].y1
                                   - RasterWords(result.data)[j].bbox[1].y0), SCALE_FACTOR)

BoxNear(raster, stored) ==
    /\ NearQuotient(raster.x0, stored.x0) /\ NearQuotient(raster.y0, stored.y0)
    /\ NearQuotient(raster.x1, stored.x1) /\ NearQuotient(raster.y1, stored.y1)
    /\ NearQuotient(raster.x1 - raster.x0, FSub(stored.x1, stored.x0))
    /\ NearQuotient(raster.y1 - raster.y0, FSub(stored.y1, stored.y0))

\* C17 amended: every stored coordinate of a word box is the raster
\* coordinate divided by 300/72, and the stored width and height are
\* (x1 - x0) / (300 / 72) and (y1 - y0) / (300 / 72), each to within 1e-6.
C17_WidthWithinTolerance ==
    opc = "stored" =>
        \A j \in DOMAIN ocrResults[ocrPage].words :
            BoxNear(RasterWords(result.data)[j].bbox[1], ocrResults[ocrPage].words[j].bbox)

\* a stored word box from x0 = 1 to x1 = 9: its width is not the double
\* 8 / (300 / 72)
C17_Witness ==
    /\ opc = "stored"
    /\ \E j \in DOMAIN ocrResults[ocrPage].words :
          /\ RasterWords(result.data)[j].bbox[1].x0 = 1
          /\ RasterWords(result.data)[j].bbox[1].x1 = 9
          /\ FSub(ocrResults[ocrPage].words[j].bbox.x1, ocrResults[ocrPage].words[j].bbox.x0)
                 # ToPdf(8)

(***************************************************************************)
(* Properties of two interleaved searches                                  *)
(***************************************************************************)
ScanPageOf(names, custom, pn, b, st) ==
    ScanPage(names, custom, pn, b.fullText, b.charMap, 1, st)

RECURSIVE AlonePages(_, _, _, _, _)
\* the page loop from page pn on, with no other call between the pages
AlonePages(pages, names, custom, pn, st) ==
    IF pn > Len(pages) \/ st.status # "ok"
    THEN st
    ELSE AlonePages(pages, names, custom, pn + 1,
                    ScanPageOf(names, custom, pn, buildCharMap(pages[pn]), st))

\* the outcome of searchPatterns(doc, names, custom) when it runs alone
Alone(doc, names, custom) ==
    AlonePages(IF doc.isNull THEN <<>> ELSE doc.pages, names, custom, 1,
               [status |-> "ok", results |-> <<>>, lastIndex |-> [n \in BuiltIn |-> 0]])

SameAsAlone(pc, res, alone) ==
    /\ pc = "returned" => (alone.status = "ok" /\ res = alone.results)
    /\ pc = "threw" => alone.status = "threw"
    /\ pc = "hung" => alone.status = "hung"

\* C18: each of two searchPatterns calls on the same document and patterns
\* returns the result list it returns when it runs alone, however the two
\* interleave at their awaits; a call throws only if it throws alone.
C18_InterleavedSameAsAlone ==
    /\ SameAsAlone(spc, results, Alone(pdfDoc, patternNames, customPattern))
    /\ SameAsAlone(spc2, results2, Alone(pdfDoc, patternNames, customPattern))

\* both calls are in flight on a document of two pages, each with matches
\* from the first page
C18_Witness ==
    /\ spc = "page" /\ pageNum = 2 /\ results # <<>>
    /\ spc2 = "page" /\ pageNum2 = 2 /\ results2 # <<>>
    /\ Len(patternNames) > 1

(***************************************************************************)
(* Document history (doc-history.js): snapshots of the document bytes      *)
(*                                                                         *)
(* A Uint8Array is known by its byteLength, so two arrays of different     *)
(* lengths are different contents.  The operations are functions from the  *)
(* argument and the two stacks to the new stacks and the returned value.   *)
(***************************************************************************)
MAX_DOC_HISTORY == 10

MAX_MEMORY_BYTES == 50 * 1024 * 1024

MaxDocCalls == 4    \* calls of the document history in one behaviour

\* null, also for a call that returns nothing
NullBytes == [null |-> TRUE, byteLength |-> 0]

Uint8Array(n) == [null |-> FALSE, byteLength |-> n]

\* one byte, 30 MB (two of them exceed the budget) and 60 MB (one does)
SnapshotSizes == {1, 30 * 1024 * 1024, 60 * 1024 * 1024}

DocBytes == {Uint8Array(n) : n \in SnapshotSizes}

RECURSIVE SumLengths(_)
SumLengths(stack) ==
    IF stack = <<>> THEN 0 ELSE Head(stack).byteLength + SumLengths(Tail(stack))

totalMemory(undo, redo) == SumLengths(undo) + SumLengths(redo)

RECURSIVE evictIfNeeded(_, _)
\* the undo stack after the eviction loop
evictIfNeeded(undo, redo) ==
    IF Len(undo) > 0 /\ totalMemory(undo, redo) > MAX_MEMORY_BYTES
    THEN evictIfNeeded(Tail(undo), redo)
    ELSE undo

\* faulty variant: the oldest snapshot is never dropped
ShiftNever(undo) == undo

\* if (undoStack.length > MAX_DOC_HISTORY) undoStack.shift()
ShiftOverLimit(undo) == IF Len(undo) > MAX_DOC_HISTORY THEN Tail(undo) ELSE undo

pushDocState(bytes, undo, redo) ==
    IF bytes.null
    THEN [undoStack |-> undo, redoStack |-> redo, ret |-> NullBytes]
    ELSE [undoStack |-> evictIfNeeded(ShiftOverLimit(Append(undo, bytes)), <<>>),
          redoStack |-> <<>>,
          ret |-> NullBytes]

\* faulty variant: the current bytes are not pushed onto the redo stack
undoDocNoRedo(currentBytes, undo, redo) ==
    IF Len(undo) = 0
    THEN [undoStack |-> undo, redoStack |-> redo, ret |-> NullBytes]
    ELSE [undoStack |-> SubSeq(undo, 1, Len(undo) - 1),
          redoStack |-> redo,
          ret |-> undo[Len(undo)]]

undoDoc(currentBytes, undo, redo) ==
    IF Len(undo) = 0
    THEN [undoStack |-> undo, redoStack |-> redo, ret |-> NullBytes]
    ELSE [undoStack |-> SubSeq(undo, 1, Len(undo) - 1),
          redoStack |-> IF currentBytes.null THEN redo ELSE Append(redo, currentBytes),
          ret |-> undo[Len(undo)]]

redoDoc(currentBytes, undo, redo) ==
    IF Len(redo) = 0
    THEN [undoStack |-> undo, redoStack |-> redo, ret |-> NullBytes]
    ELSE [undoStack |-> IF currentBytes.null THEN undo ELSE Append(undo, currentBytes),
          redoStack |-> SubSeq(redo, 1, Len(redo) - 1),
          ret |-> redo[Len(redo)]]

canUndoDoc(undo) == Len(undo) > 0

canRedoDoc(redo) == Len(redo) > 0

clearDocHistory == [undoStack |-> <<>>, redoStack |-> <<>>, ret |-> NullBytes]

\* the call op(arg) with the outcome out is made and recorded
DocCall(op, arg, out) ==
    /\ Len(docCalls) < MaxDocCalls
    /\ undoStack' = out.undoStack
    /\ redoStack' = out.redoStack
    /\ docCalls' = Append(docCalls,
                          [op |-> op, arg |-> arg, ret |-> out.ret,
                           undoBefore |-> undoStack, redoBefore |-> redoStack,
                           undoAfter |-> out.undoStack, redoAfter |-> out.redoStack])
    /\ UNCHANGED notDh

PushDocState ==
    \E bytes \in DocBytes \cup {NullBytes} :
        DocCall("pushDocState", bytes, pushDocState(bytes, undoStack, redoStack))

UndoDoc ==
    \E currentBytes \in DocBytes \cup {NullBytes} :
        DocCall("undoDoc", currentBytes, undoDoc(currentBytes, undoStack, redoStack))

RedoDoc ==
    \E currentBytes \in DocBytes \cup {NullBytes} :
        DocCall("redoDoc", currentBytes, redoDoc(currentBytes, undoStack, redoStack))

ClearDocHistory == DocCall("clearDocHistory", NullBytes, clearDocHistory)

NextDocHistory == PushDocState \/ UndoDoc \/ RedoDoc \/ ClearDocHistory

InitDocHistory ==
    /\ DhIdle
    /\ IxIdle /\ ValIdle /\ SrIdle /\ DocIdle /\ OtIdle /\ S2Idle /\ AnIdle /\ RgIdle

SpecDocHistory == InitDocHistory /\ [][NextDocHistory]_vars

(***************************************************************************)
(* Properties of the document history                                      *)
(***************************************************************************)
\* call i is pushDocState(A), call i + 1 is undoDoc(B), A and B not null
PushThenUndo(i) ==
    /\ i + 1 <= Len(docCalls)
    /\ docCalls[i].op = "pushDocState" /\ ~docCalls[i].arg.null
    /\ docCalls[i + 1].op = "undoDoc" /\ ~docCalls[i + 1].arg.null

\* ... and call i + 2 is redoDoc(A)
ThenRedo(i) ==
    /\ i + 2 <= Len(docCalls)
    /\ docCalls[i + 2].op = "redoDoc"
    /\ docCalls[i + 2].arg = docCalls[i].arg

\* undoDoc(B) returned A; redoDoc(A) returned B and left the stacks as they
\* were before the undo
RoundTrip(i) ==
    /\ docCalls[i + 1].ret = docCalls[i].arg
    /\ ThenRedo(i) =>
          /\ docCalls[i + 2].ret = docCalls[i + 1].arg
          /\ docCalls[i + 2].undoAfter = docCalls[i + 1].undoBefore
          /\ docCalls[i + 2].redoAfter = docCalls[i + 1].redoBefore

\* C19 as claimed: after pushDocState(A), undoDoc(B) returns A and
\* redoDoc(A) called next returns B and leaves both stacks as they were
\* before the undo; every pushDocState leaves the redo stack empty.
C19_RoundTrip ==
    \A i \in DOMAIN docCalls :
        /\ PushThenUndo(i) => RoundTrip(i)
        /\ docCalls[i].op = "pushDocState" => docCalls[i].redoAfter = <<>>

\* C19 amended: the same for a snapshot A of at most MAX_MEMORY_BYTES
\* bytes, and every pushDocState of bytes that are not null leaves the redo
\* stack empty.
C19_RoundTripWithinBudget ==
    \A i \in DOMAIN docCalls :
        /\ (PushThenUndo(i) /\ docCalls[i].arg.byteLength <= MAX_MEMORY_BYTES)
              => RoundTrip(i)
        /\ (docCalls[i].op = "pushDocState" /\ ~docCalls[i].arg.null)
              => docCalls[i].redoAfter = <<>>

\* a round trip over older snapshots: pushDocState(A), undoDoc(B) and
\* redoDoc(A) with A # B have been made on a stack that was not empty
C19_Witness ==
    \E i \in DOMAIN docCalls :
        /\ PushThenUndo(i) /\ ThenRedo(i)
        /\ docCalls[i].arg # docCalls[i + 1].arg
        /\ docCalls[i].undoBefore # <<>>
        /\ docCalls[i + 2].ret = docCalls[i + 1].arg

(***************************************************************************)
(* Annotation history (history.js): canvas snapshots per page              *)
(*                                                                         *)
(* A canvas state is what canvas.toJSON() returns: an object.  A returned  *)
(* value is a sequence of length 0 (null) or 1 (the parsed state).         *)
(***************************************************************************)
MAX_HISTORY == 50

MaxAnnCalls == 4    \* calls of the annotation history in one behaviour

AnnPages == {1, 2}

\* canvas states; a property whose value is undefined is left out by
\* JSON.stringify
Canvases ==
    {[objects |-> <<>>, clipPath |-> "undefined"],
     [objects |-> <<"rect">>, clipPath |-> "absent"],
     [objects |-> <<"rect", "text">>, clipPath |-> "path"]}

JSONstringify(canvasJSON) ==
    [json |-> [objects |-> canvasJSON.objects,
               clipPath |-> IF canvasJSON.clipPath = "undefined"
                            THEN "absent" ELSE canvasJSON.clipPath]]

JSONparse(str) == str.json

NoHistory == [undoStack |-> <<>>, redoStack |-> <<>>]

\* pageHistory after getPageHistory(pageNum)
getPageHistory(ph, pn) ==
    IF pn \in DOMAIN ph THEN ph ELSE [q \in DOMAIN ph \cup {pn} |-> IF q = pn THEN NoHistory ELSE ph[q]]

\* if (hist.undoStack.length > MAX_HISTORY) hist.undoStack.shift()
ShiftOverMax(undo) == IF Len(undo) > MAX_HISTORY THEN Tail(undo) ELSE undo

Pushed(hist, str) ==
    [undoStack |-> ShiftOverMax(Append(hist.undoStack, str)), redoStack |-> <<>>]

pushState(ph, pn, canvasJSON) ==
    [pageHistory |-> [getPageHistory(ph, pn) EXCEPT
                         ![pn] = Pushed(getPageHistory(ph, pn)[pn], JSONstringify(canvasJSON))],
     ret |-> <<>>]

\* faulty variant: the last state may be undone too
UndoneToEmpty(ph, pn) ==
    IF Len(ph[pn].undoStack) = 0
    THEN [pageHistory |-> ph, ret |-> <<>>]
    ELSE [pageHistory |->
              [ph EXCEPT ![pn] =
                  [undoStack |-> SubSeq(ph[pn].undoStack, 1, Len(ph[pn].undoStack) - 1),
                   redoStack |-> Append(ph[pn].redoStack,
                                        ph[pn].undoStack[Len(ph[pn].undoStack)])]],
          ret |-> IF Len(ph[pn].undoStack) = 1 THEN <<>>
                  ELSE <<JSONparse(ph[pn].undoStack[Len(ph[pn].undoStack) - 1])>>]

\* undo on the history ph, in which page pn has its entry
Undone(ph, pn) ==
    IF Len(ph[pn].undoStack) <= 1
    THEN [pageHistory |-> ph, ret |-> <<>>]
    ELSE [pageHistory |->
              [ph EXCEPT ![pn] =
                  [undoStack |-> SubSeq(ph[pn].undoStack, 1, Len(ph[pn].undoStack) - 1),
                   redoStack |-> Append(ph[pn].redoStack,
                                        ph[pn].undoStack[Len(ph[pn].undoStack)])]],
          ret |-> <<JSONparse(ph[pn].undoStack[Len(ph[pn].undoStack) - 1])>>]

undo(ph, pn) == Undone(getPageHistory(ph, pn), pn)

Redone(ph, pn) ==
    IF Len(ph[pn].redoStack) = 0
    THEN [pageHistory |-> ph, ret |-> <<>>]
    ELSE [pageHistory |->
              [ph EXCEPT ![pn] =
                  [undoStack |-> Append(ph[pn].undoStack,
                                        ph[pn].redoStack[Len(ph[pn].redoStack)]),
                   redoStack |-> SubSeq(ph[pn].redoStack, 1, Len(ph[pn].redoStack) - 1)]],
          ret |-> <<JSONparse(ph[pn].redoStack[Len(ph[pn].redoStack)])>>]

redo(ph, pn) == Redone(getPageHistory(ph, pn), pn)

canUndo(ph, pn) == IF pn \in DOMAIN ph THEN Len(ph[pn].undoStack) > 1 ELSE FALSE

canRedo(ph, pn) == IF pn \in DOMAIN ph THEN Len(ph[pn].redoStack) > 0 ELSE FALSE

\* clearHistory(pageNum); pn = 0 stands for the call without argument
clearHistory(ph, pn) ==
    [pageHistory |-> IF pn = 0 THEN <<>> ELSE [q \in DOMAIN ph \ {pn} |-> ph[q]],
     ret |-> <<>>]

\* the call op(pn, ...) with the outcome out is made and recorded, with what
\* canUndo(pn) and canRedo(pn) were before it
AnnCall(op, pn, out) ==
    /\ annCalls < MaxAnnCalls
    /\ annCalls' = annCalls + 1
    /\ pageHistory' = out.pageHistory
    /\ annLast' = [op |-> op, pageNum |-> pn, ret |-> out.ret,
                   couldUndo |-> canUndo(pageHistory, pn),
                   couldRedo |-> canRedo(pageHistory, pn)]
    /\ UNCHANGED notAn

PushState ==
    \E pn \in AnnPages : \E canvasJSON \in Canvases :
        /\ AnnCall("pushState", pn, pushState(pageHistory, pn, canvasJSON))
        /\ pushedPages' = pushedPages \cup {pn}

Undo ==
    \E pn \in AnnPages :
        /\ AnnCall("undo", pn, undo(pageHistory, pn))
        /\ UNCHANGED pushedPages

Redo ==
    \E pn \in AnnPages :
        /\ AnnCall("redo", pn, redo(pageHistory, pn))
        /\ UNCHANGED pushedPages

ClearHistory ==
    \E pn \in AnnPages \cup {0} :
        /\ AnnCall("clearHistory", pn, clearHistory(pageHistory, pn))
        /\ pushedPages' = IF pn = 0 THEN {} ELSE pushedPages \ {pn}

NextAnnotations == PushState \/ Undo \/ Redo \/ ClearHistory

\* a page on which one state short of MAX_HISTORY has been pushed
LongHistory ==
    [undoStack |-> [i \in 1..(MAX_HISTORY - 1) |->
                       JSONstringify([objects |-> <<"rect">>, clipPath |-> "absent"])],
     redoStack |-> <<>>]

\* no history yet, or page 1 with a long one
InitAnnotations ==
    /\ pageHistory \in {<<>>, [pn \in {1} |-> LongHistory]}
    /\ pushedPages = DOMAIN pageHistory
    /\ annLast = [op |-> "none"]
    /\ annCalls = 0
    /\ IxIdle /\ ValIdle /\ SrIdle /\ DocIdle /\ OtIdle /\ S2Idle /\ DhIdle /\ RgIdle

SpecAnnotations == InitAnnotations /\ [][NextAnnotations]_vars

(***************************************************************************)
(* Properties of the annotation history                                    *)
(***************************************************************************)
\* C20: a page for which a state has been pushed (and whose history has not
\* been cleared since) has an undo stack that is not empty; undo(page)
\* returns null exactly when canUndo(page) was false, and redo(page)
\* returns null exactly when canRedo(page) was false.
C20_InitialStateKept ==
    /\ \A pn \in pushedPages :
          pn \in DOMAIN pageHistory /\ pageHistory[pn].undoStack # <<>>
    /\ annLast.op = "undo" => (annLast.ret = <<>> <=> ~annLast.couldUndo)
    /\ annLast.op = "redo" => (annLast.ret = <<>> <=> ~annLast.couldRedo)

\* undo has just returned null on a page whose only state is the first one
\* pushed, while another page holds MAX_HISTORY states
C20_Witness ==
    /\ annLast.op = "undo" /\ annLast.ret = <<>>
    /\ annLast.pageNum \in pushedPages
    /\ Len(pageHistory[annLast.pageNum].undoStack) = 1
    /\ \E pn \in pushedPages : Len(pageHistory[pn].undoStack) = MAX_HISTORY

(***************************************************************************)
(* getRectsForRange, one loop iteration at a time, on every character map  *)
(* of up to MaxChars entries of PosPool.  The function takes any array of  *)
(* boxes and nulls; the boxes of PosPool differ in height, are not all in  *)
(* reading order, and are offset vertically.                               *)
(***************************************************************************)
MaxChars == 3

Box(x, y, w, h) == [null |-> FALSE, x |-> x, y |-> y, w |-> w, h |-> h]

\* a tall character; a short one beside it whose centre is near the tall
\* one's and whose top is not; a short one whose top is level with the tall
\* one's; the next character of that run; a character to the left of the
\* run, two units higher; a separator
PosPool ==
    { Box(0, 0, 5, 20), Box(5, 6, 5, 10), Box(10, 0, 5, 10), Box(15, 0, 5, 10),
      Box(2, -2, 1, 10), NullPos }

InitRange ==
    /\ charMap \in SeqsUpTo(PosPool, MaxChars)
    /\ items = <<>> /\ fullText = <<>>
    /\ span = <<0, 0>> /\ rects = <<>>
    /\ ipc = "input"
    /\ RgIdle
    /\ ValIdle /\ SrIdle /\ DocIdle /\ OtIdle /\ S2Idle /\ DhIdle /\ AnIdle

\* the call: const rects = []; let currentRect = null; let i = startIdx
RangeCall ==
    /\ ipc = "input"
    /\ \E startIdx \in 0..Len(charMap) :
         \E endIdx \in startIdx..(Len(charMap) + 1) :
            /\ span' = <<startIdx, endIdx>>
            /\ idx' = startIdx
    /\ rects' = <<>>
    /\ currentRect' = <<>>
    /\ merged' = <<>>
    /\ lastStep' = NoStep
    /\ ipc' = "loop"
    /\ UNCHANGED <<items, fullText, charMap>>
    /\ UNCHANGED notRg

\* the characters of the rectangles after an iteration that turned the list
\* and the open rectangle <<rs, cur>> into <<rs2, cur2>> at offset i
MergedAfter(m, i, rs, cur, rs2, cur2) ==
    IF cur2 = <<>> THEN m
    ELSE IF cur = <<>> \/ Len(rs2) > Len(rs)
         THEN Append(m, {i})
         ELSE [m EXCEPT ![Len(m)] = @ \cup {i}]

\* one iteration of the for loop
RangeStep ==
    /\ ipc = "loop"
    /\ idx < span[2] /\ idx < Len(charMap)
    /\ \E st \in {RectStep(charMap[idx + 1], [rects |-> rects, cur |-> currentRect])} :
          /\ rects' = st.rects
          /\ currentRect' = st.cur
          /\ merged' = MergedAfter(merged, idx, rects, currentRect, st.rects, st.cur)
          /\ lastStep' = [op |-> "step", pos |-> charMap[idx + 1], open |-> currentRect,
                          pushed |-> Len(st.rects) > Len(rects)]
    /\ idx' = idx + 1
    /\ UNCHANGED <<items, fullText, charMap, span, ipc>>
    /\ UNCHANGED notRg

\* the loop has ended: if (currentRect) rects.push(currentRect); return rects
RangeReturn ==
    /\ ipc = "loop"
    /\ ~(idx < span[2] /\ idx < Len(charMap))
    /\ rects' = IF currentRect # <<>> THEN Append(rects, currentRect[1]) ELSE rects
    /\ currentRect' = <<>>
    /\ lastStep' = NoStep
    /\ ipc' = "rects"
    /\ UNCHANGED <<items, fullText, charMap, span, idx, merged>>
    /\ UNCHANGED notRg

NextRange == RangeCall \/ RangeStep \/ RangeReturn

SpecRange == InitRange /\ [][NextRange]_vars

\* the loop taken one iteration at a time returns what getRectsForRange returns
StepwiseIsGetRects ==
    ipc = "rects" => rects = getRectsForRange(charMap, span[1], span[2])

\* the last iteration met a character while a rectangle was open
MetOpenRect == lastStep.op = "step" /\ ~lastStep.pos.null /\ lastStep.open # <<>>

\* the character's vertical centre is within half its height of the centre
\* of the rectangle
CentresClose(pos, open) ==
    Abs(Centre2(pos.y, pos.h) - Centre2(open.y, open.height)) < pos.h

Validators == {"source", "strict"}

\* pattern.validate(matchText) at line 252: "accept", "reject" or "throw"
validateCall(reg, name, matchText) ==
    IF PassesValidation(name, matchText) THEN "accept"
    ELSE IF reg[name] = "strict" THEN "throw" ELSE "reject"

\* lines 250-267 for one match: the call is in no try block, so an exception
\* of the validator leaves the while loop, the pattern loop and the page loop
BodyWith(reg, acc, pn, name, matchText, startIdx, cm) ==
    IF validateCall(reg, name, matchText) = "throw"
    THEN [status |-> "validatorThrew", results |-> acc]
    ELSE [status |-> "ok", results |-> MatchBody(acc, pn, name, matchText, startIdx, cm)]

RECURSIVE ScanPatternWith(_, _, _, _, _, _, _, _)

\* the while loop after the body b has run for the match m
ScanNextWith(reg, regex, name, pn, text, cm, m, b) ==
    IF b.status # "ok"
    THEN [status |-> b.status, results |-> b.results, lastIndex |-> m.lastIndex]
    ELSE IF m.end = m.index
         THEN [status |-> "hung", results |-> b.results, lastIndex |-> m.lastIndex]
         ELSE ScanPatternWith(reg, regex, name, pn, text, cm, m.lastIndex, b.results)

ScanMatchWith(reg, regex, name, pn, text, cm, m, acc) ==
    IF ~m.found
    THEN [status |-> "ok", results |-> acc, lastIndex |-> m.lastIndex]
    ELSE ScanNextWith(reg, regex, name, pn, text, cm, m,
                      BodyWith(reg, acc, pn, name, SubSeq(text, m.index + 1, m.end),
                               m.index, cm))

ScanPatternWith(reg, regex, name, pn, text, cm, li, acc) ==
    ScanMatchWith(reg, regex, name, pn, text, cm, Exec(regex, text, li), acc)

\* one iteration of the pattern loop under the registry reg
ScanWithRegistry(reg, r, name, pn, text, cm, st) ==
    CASE r.kind = "none" -> st
      [] r.kind = "throw" ->
            [status |-> "threw", results |-> st.results, lastIndex |-> st.lastIndex]
      [] r.kind = "regex" ->
            Scanned(st, name,
                    ScanPatternWith(reg, r.regex, name, pn, text, cm, 0, st.results))

RECURSIVE ScanPageWith(_, _, _, _, _, _, _, _)
ScanPageWith(reg, names, custom, pn, text, cm, k, st) ==
    IF k > Len(names) \/ st.status # "ok"
    THEN st
    ELSE ScanPageWith(reg, names, custom, pn, text, cm, k + 1,
                      IF names[k] \notin PatternKeys
                      THEN st
                      ELSE ScanWithRegistry(reg, RegexFor(names[k], custom), names[k],
                                            pn, text, cm, st))

\* one iteration of the page loop after its awaits
SearchPageWith ==
    /\ spc = "page"
    /\ \E b \in {buildCharMap(pdfDoc.pages[pageNum])} :
       \E st \in {ScanPageWith(registry, patternNames, customPattern, pageNum,
                                b.fullText, b.charMap, 1,
                                [status |-> "ok", results |-> results,
                                 lastIndex |-> lastIndex])} :
          /\ results' = st.results
          /\ lastIndex' = st.lastIndex
          /\ IF st.status = "ok"
             THEN /\ pageNum' = pageNum + 1
                  /\ spc' = IF pageNum + 1 <= Len(pdfDoc.pages) THEN "page" ELSE "returned"
             ELSE /\ pageNum' = pageNum
                  /\ spc' = st.status
    /\ UNCHANGED <<pdfDoc, patternNames, customPattern>>
    /\ UNCHANGED notSr

NextRegistry == SearchNoDoc \/ SearchStart \/ SearchPageWith

\* documents of pages with hits the validators accept and hits they reject
DocumentsV ==
    {[isNull |-> TRUE, pages |-> <<>>]}
    \cup {[isNull |-> FALSE, pages |-> ps] :
             ps \in SeqsUpTo({pgSsn, pgCard, pgContact, pgNoItems}, MaxPages) \ {<<>>}}

SelectionsV ==
    { <<"ssn">>, <<"creditCard">>, <<"email", "ssn">>, <<"ssn", "creditCard", "phone">> }

\* the registry of the source, or one entry replaced by a strict validator
Registries ==
    {[k \in PatternKeys |-> "source"]}
    \cup {[k \in PatternKeys |-> IF k = n THEN "strict" ELSE "source"] :
             n \in {"ssn", "creditCard", "email"}}

InitRegistry ==
    /\ pdfDoc \in DocumentsV
    /\ patternNames \in SelectionsV
    /\ customPattern = <<>>
    /\ registry \in Registries
    /\ pageNum = 0 /\ results = <<>> /\ spc = "idle"
    /\ lastIndex = [n \in BuiltIn |-> 0]
    /\ IxIdle /\ ValIdle /\ DocIdle /\ OtIdle /\ S2Idle /\ DhIdle /\ AnIdle /\ RangeIdle

SpecRegistry == InitRegistry /\ [][NextRegistry]_vars

\* with the validators of the source the loop is the one of ScanPage
SourceRegistryScansAlike ==
    (spc = "page" /\ registry = [k \in PatternKeys |-> "source"]) =>
        \E b \in {buildCharMap(pdfDoc.pages[pageNum])} :
            ScanPageWith(registry, patternNames, customPattern, pageNum, b.fullText,
                         b.charMap, 1,
                         [status |-> "ok", results |-> results, lastIndex |-> lastIndex])
            = ScanPage(patternNames, customPattern, pageNum, b.fullText, b.charMap, 1,
                       [status |-> "ok", results |-> results, lastIndex |-> lastIndex])

C23_SearchTerminates == spc # "hung"

\* the character map of page p
PageMap(p) == buildCharMap(pdfDoc.pages[p]).charMap

\* the span of the entry e holds a positioned character
SpanHasBox(e) ==
    \E i \in e.index..(e.end - 1) :
        i < Len(PageMap(e.pageNum)) /\ ~PageMap(e.pageNum)[i + 1].null

\* C24: every entry of the result list carries at least one rectangle; a
\* validated match whose span holds no positioned character is not in the
\* list.
C24_EveryEntryHasRects ==
    \A k \in 1..Len(results) :
        /\ Len(results[k].rects) > 0
        /\ SpanHasBox(results[k])

\* a finished search for whitespace over a page whose only whitespace is the
\* separators after its items: the pattern matched and nothing is reported
C24_Witness ==
    /\ spc = "returned"
    /\ patternNames = <<"custom">>
    /\ customPattern = <<"\\", "s">>
    /\ pdfDoc.pages = <<pgSsn>>
    /\ Exec(RegExpCompile(customPattern), PageText(1), 0).found
    /\ results = <<>>

(***************************************************************************)
(* Properties of the rectangles returned by getRectsForRange               *)
(***************************************************************************)
\* the box of the character at offset j
BoxAt(j) == charMap[j + 1]

\* the rectangle r encloses the box pos
Encloses(r, pos) ==
    /\ r.x <= pos.x
    /\ pos.x + pos.w <= r.x + r.width
    /\ r.y <= pos.y
    /\ pos.y + pos.h <= r.y + r.height

SetMin(S) == CHOOSE a \in S : \A b \in S : a <= b

SetMax(S) == CHOOSE a \in S : \A b \in S : a >= b

\* the characters at the offsets S have the y of the first one, none starts
\* left of the first one and none ends right of the last one
InReadingOrder(S) ==
    \A j \in S :
        /\ BoxAt(j).y = BoxAt(SetMin(S)).y
        /\ BoxAt(j).x >= BoxAt(SetMin(S)).x
        /\ BoxAt(j).x + BoxAt(j).w <= BoxAt(SetMax(S)).x + BoxAt(SetMax(S)).w

StoredBy(e) == e.words[1]

\* C26: a run that was in flight when openPDF cleared the store adds no
\* entry afterwards: the store holds no entry of such a run.
C26_NoEntryAfterReset ==
    \A p \in DOMAIN ocrResults : ~runs[StoredBy(ocrResults[p])].reset

\* C27: the recognition worker is a singleton.  terminateOCR is never
\* called (export.js imports it and has no call of it), so every behaviour
\* is a sequence of runOCR calls with no terminateOCR in between: the
\* worker is created at most once.
C27_WorkerCreatedOnce == created <= 1

(***************************************************************************)
(* The limits of the document history.  The calls of SpecDocHistoryFull    *)
(* start from an empty history or from one that earlier pushDocState calls *)
(* have filled with one-byte snapshots up to the entry limit or one below. *)
(***************************************************************************)
\* the undo stack after n calls pushDocState of one byte each, n <= MAX_DOC_HISTORY
Filled(n) == [k \in 1..n |-> Uint8Array(1)]

InitDocHistoryFull ==
    /\ undoStack \in {<<>>, Filled(MAX_DOC_HISTORY - 1), Filled(MAX_DOC_HISTORY)}
    /\ redoStack = <<>>
    /\ docCalls = <<>>
    /\ IxIdle /\ ValIdle /\ SrIdle /\ DocIdle /\ OtIdle /\ S2Idle /\ AnIdle /\ RgIdle

SpecDocHistoryFull == InitDocHistoryFull /\ [][NextDocHistory]_vars

\* C28: after every pushDocState, undoDoc and redoDoc the bytes held in the
\* undo and redo stacks together are at most MAX_MEMORY_BYTES.
C28_WithinMemoryBudget == totalMemory(undoStack, redoStack) <= MAX_MEMORY_BYTES

\* C29: after any sequence of pushDocState, undoDoc and redoDoc, with or
\* without current bytes, the undo stack holds at most MAX_DOC_HISTORY
\* snapshots (the two stacks together do).
C29_WithinEntryLimit ==
    /\ Len(undoStack) <= MAX_DOC_HISTORY
    /\ Len(undoStack) + Len(redoStack) <= MAX_DOC_HISTORY

\* the last call was a redoDoc with current bytes that brought the undo
\* stack back to the limit
C29_Witness ==
    /\ docCalls # <<>>
    /\ docCalls[Len(docCalls)].op = "redoDoc"
    /\ ~docCalls[Len(docCalls)].arg.null
    /\ Len(docCalls[Len(docCalls)].undoBefore) = MAX_DOC_HISTORY - 1
    /\ Len(undoStack) = MAX_DOC_HISTORY

(***************************************************************************)
(* Properties of the entries of getOCRTextEntries                          *)
(***************************************************************************)
\* the texts of the stored words of page p, in stored order
WordTexts(p) == [k \in 1..Len(ocrResults[p].words) |-> ocrResults[p].words[k].text]

\* the items of the entry e lie one after the other from offset 0 and each
\* is found in the text at its start
Partition(e) ==
    /\ e.items # <<>> => e.items[1].start = 0
    /\ \A k \in 1..(Len(e.items) - 1) :
          e.items[k + 1].start = e.items[k].start + Len(e.items[k].str)
    /\ \A k \in 1..Len(e.items) :
          SubSeq(e.text, e.items[k].start + 1, e.items[k].start + Len(e.items[k].str))
             = e.items[k].str

\* C30: the items of every entry are in stored word order and partition the
\* entry's text, and the text is the words joined by single spaces, with no
\* separator after the last word.
C30_ItemsPartitionText ==
    opc = "entries" =>
        \A n \in 1..Len(ocrEntries) :
            /\ Len(ocrEntries[n].items) = Len(WordTexts(ocrEntries[n].pageNum))
            /\ \A k \in 1..Len(ocrEntries[n].items) :
                  SubSeq(ocrEntries[n].items[k].str, 1,
                         Len(WordTexts(ocrEntries[n].pageNum)[k]))
                     = WordTexts(ocrEntries[n].pageNum)[k]
            /\ Partition(ocrEntries[n])
            /\ ocrEntries[n].text = Join(WordTexts(ocrEntries[n].pageNum), <<" ">>)

\* an entry of four words from three lines
C30_Witness ==
    /\ opc = "entries"
    /\ \E n \in 1..Len(ocrEntries) :
          /\ Len(ocrEntries[n].items) = 4
          /\ ocrEntries[n].items[4].start = Len(ocrEntries[n].text) - 1
====
